---- MODULE Spec2Model ----
(***************************************************************************)
(* A model of the A2A task executor (agents/src/a2a/executor.ts), of the    *)
(* agent registry (agents/src/core/registry.ts) and of one agent           *)
(* (BaseAgent).  JavaScript runs each handler to its next await or yield   *)
(* without interruption, so one action is one such run-to-suspension       *)
(* segment of the code.  Each component has its own specification; the     *)
(* other components' variables stay as they are in it.                     *)
(***************************************************************************)
EXTENDS Integers, Sequences, FiniteSets, TLC

\* ---------------------------------------------------------------- bounds
MaxTasks == 1
MaxChunks == 1
MaxClock == 1
MaxAge == 0
MaxFiles == 2
MaxClients == 3
MaxDeltas == 1
MaxErrors == 1
MaxMatches == 2
MaxDepth == 3
MaxInvocations == 7

\* ------------------------------------------------------------- vocabulary
RegisteredPaths == {"sales"}
Paths == RegisteredPaths \cup {"unknown"}
TaskIds == 1..MaxTasks
StreamIds == {"s1"}
Terminal == {"completed", "failed", "cancelled"}
ChunkTypes == {"text", "tool-call", "tool-result", "error", "finish"}

NoResult == [kind |-> "undefined", text |-> <<>>]
NoError == "undefined"
AgentOutput == [kind |-> "output", text |-> <<"Response">>]
ExecuteError == "execute failed"
StreamError == "stream failed"

VARIABLES
  agents,    \* AgentRegistry.agents: path -> the agent registered for it,
             \* named by the config file it was created from
  configs,   \* AgentRegistry.configs: path -> AgentConfig
  dir,       \* the config directory on disk
  load,      \* the position of the loadAll in progress
  sd,        \* the position of the shutdownAll in progress
  regCall,   \* the last registry call that returned and what it returned
  config,        \* BaseAgent.config: its tool sources and whether rag is enabled
  initialized,   \* BaseAgent.initialized
  connections,   \* McpClientManager.connections: source id -> client
  openClients,   \* the clients connected and not closed
  nextClient,    \* number of clients connected so far
  mcpClients,    \* BaseAgent.mcpClients: the source ids it has a client for
  tools,         \* BaseAgent.tools: the names of the collected tools
  retriever,     \* BaseAgent.retriever
  everShutdown,  \* whether a shutdown of the agent has completed
  procs,         \* the calls in progress on the agent, one per caller
  agentCall,     \* the last agent call that returned and what it returned
  turn,          \* one turn of BaseAgent.stream or BaseAgent.execute
  input,         \* the arguments of the function applied
  output,        \* what the function returned
  nest,          \* the executes nested by delegation tools in one turn
  tasks,     \* A2aExecutor.tasks: taskId -> A2aTask
  nextId,    \* number of task ids handed out so far (ids are never reused)
  clock,     \* the wall clock in ms, as Date reads it
  bg,        \* taskId -> "awaiting" while the executeTaskAsync started for it
             \* waits for agent.execute, then how that settled
  streams,   \* stream id -> one invocation of executeTaskStream
  lastCall   \* the last public call and what it returned

registryVars == <<configs, dir, load, sd, regCall>>
executorVars == <<tasks, nextId, clock, bg, streams, lastCall>>
agentVars ==
  <<config, initialized, connections, openClients, nextClient, mcpClients, tools,
    retriever, everShutdown, procs, agentCall>>
turnVars == <<turn>>
functionVars == <<input, output>>
delegationVars == <<nest>>
vars ==
  <<agents, registryVars, executorVars, agentVars, turnVars, functionVars,
    delegationVars>>

\* ------------------------------------------------------------ timestamps
\* new Date().toISOString(): a millisecond-precision ISO-8601 string.
ToISOString(ms) == [iso |-> ms]

\* new Date(s).getTime(): the milliseconds an ISO string denotes.
GetTime(s) == s.iso

\* ---------------------------------------------------------------- registry
RegistryHas(path) == path \in DOMAIN agents

\* The files a config directory may hold: a config that parses and names a
\* path, a .json file that JSON.parse or the schema rejects, and a file
\* whose name does not end in .json.
ConfigPaths == {"sales", "support"}
ConfigFile(path) == [json |-> TRUE, valid |-> TRUE, path |-> path]
InvalidFile == [json |-> TRUE, valid |-> FALSE, path |-> ""]
OtherFile == [json |-> FALSE, valid |-> FALSE, path |-> ""]
FileContents == {ConfigFile(path) : path \in ConfigPaths} \cup {InvalidFile, OtherFile}

\* An agent is named by the position of its config file in the directory.
AgentIds == 1..MaxFiles

MissingDirectory == [exists |-> FALSE, files |-> <<>>]
Directories ==
  {MissingDirectory} \cup
  {[exists |-> TRUE, files |-> fs] :
     fs \in UNION {[1..n -> FileContents] : n \in 0..MaxFiles}}

\* The directory the server of the executor was started on.
ServerDirectory == [exists |-> TRUE, files |-> <<ConfigFile("sales")>>]

\* The config a file parses to; its id names the file (reload reads
\* `${config.id}.json`).
ConfigOf(d, i) == [id |-> i, path |-> d.files[i].path]

\* files.filter(f => f.endsWith('.json')), in directory order.
RECURSIVE JsonFilesFrom(_, _)
JsonFilesFrom(d, i) ==
  IF i > Len(d.files) THEN <<>>
  ELSE (IF d.files[i].json THEN <<i>> ELSE <<>>) \o JsonFilesFrom(d, i + 1)

JsonFiles(d) == JsonFilesFrom(d, 1)

\* The paths of the agents the directory defines.
DirectoryPaths(d) ==
  {d.files[i].path : i \in {j \in 1..Len(d.files) : d.files[j].json /\ d.files[j].valid}}

\* get, getConfig, has and list, as a reader sees them.
NotFound == [ok |-> FALSE, error |-> "AGENT_NOT_FOUND"]
Get(path) ==
  IF path \in DOMAIN agents THEN [ok |-> TRUE, agent |-> agents[path]] ELSE NotFound
GetConfig(path) ==
  IF path \in DOMAIN configs THEN [ok |-> TRUE, config |-> configs[path]] ELSE NotFound
Has(path) == path \in DOMAIN agents
List == {configs[path] : path \in DOMAIN configs}

IdleLoad == [pc |-> "idle", queue |-> <<>>]
IdleShutdown == [pc |-> "idle", snapshot |-> {}, pending |-> {}, failed |-> {}]
NoRegCall == [op |-> "none", ret |-> "", reason |-> "", file |-> 0]
RegCall(op, ret, reason, file) == [op |-> op, ret |-> ret, reason |-> reason, file |-> file]

\* ------------------------------------------------------------------ tasks
NewTask(path, now) ==
  [agentPath |-> path, status |-> "pending", result |-> NoResult,
   error |-> NoError, createdAt |-> ToISOString(now), updatedAt |-> ToISOString(now)]

NoTask ==
  [agentPath |-> "", status |-> "none", result |-> NoResult,
   error |-> NoError, createdAt |-> ToISOString(0), updatedAt |-> ToISOString(0)]

\* updateTaskStatus with the timestamp left untouched.
UpdateTaskStatusNoTouch(ts, id, status, now) ==
  IF id \in DOMAIN ts THEN [ts EXCEPT ![id].status = status] ELSE ts

UpdateTaskStatus(ts, id, status, now) ==
  IF id \in DOMAIN ts
  THEN [ts EXCEPT ![id].status = status, ![id].updatedAt = ToISOString(now)]
  ELSE ts

\* task.result = r on the task object the caller holds; an object already
\* deleted from the map is no longer observable.
SetResult(ts, id, r) ==
  IF id \in DOMAIN ts THEN [ts EXCEPT ![id].result = r] ELSE ts

SetError(ts, id, e) ==
  IF id \in DOMAIN ts THEN [ts EXCEPT ![id].error = e] ELSE ts

\* -------------------------------------------------------------- last call
NoCall ==
  [op |-> "none", id |-> 0, path |-> "", maxAge |-> 0, ret |-> "", count |-> 0,
   task |-> NoTask]

Call(op, id, path, maxAge, ret, count, task) ==
  [op |-> op, id |-> id, path |-> path, maxAge |-> maxAge, ret |-> ret,
   count |-> count, task |-> task]

IdleStream == [task |-> 0, pc |-> "idle", n |-> 0, fullText |-> <<>>, events |-> <<>>]

\* ------------------------------------------------------------------ agent
Sources == {"s1", "s2"}
ProcIds == {"p1", "p2"}
ClientIds == 1..MaxClients
AgentConfigs == {[servers |-> <<"s1", "s2">>, rag |-> r] : r \in BOOLEAN}

\* getToolsForServer names a tool `${serverId}_${mcpTool.name}`.
ToolsOf(src) == {<<src, "tool">>}

\* A caller's position: the servers initialize has still to go through, the
\* sources whose tools it has loaded, the client whose listTools it awaits,
\* and the connections whose close a shutdown awaits.
IdleProc ==
  [kind |-> "none", pc |-> "idle", queue |-> <<>>, got |-> {}, client |-> 0,
   closing |-> {}]
\* ret tells the return of line 69 ("already") from that of line 127 ("ok").
NoAgentCall == [op |-> "none", proc |-> "", ret |-> ""]
AgentCall(op, p, ret) == [op |-> op, proc |-> p, ret |-> ret]

\* A BaseAgent as constructed.
AgentCreated ==
  /\ initialized = FALSE
  /\ connections = <<>>
  /\ openClients = {}
  /\ nextClient = 0
  /\ mcpClients = {}
  /\ tools = {}
  /\ retriever = "null"
  /\ everShutdown = FALSE
  /\ procs = [p \in ProcIds |-> IdleProc]
  /\ agentCall = NoAgentCall

\* stepCountIs(5): the step cap of the tool loop.
StepCap == 5

\* The parts of streamText's fullStream, and the chunks stream yields.
Part(type, finishReason) == [type |-> type, finishReason |-> finishReason]
Chunk(type, finishReason) == [type |-> type, finishReason |-> finishReason]

\* The switch of stream with the finish part passed on whatever its reason.
TranslateAll(part) ==
  CASE part.type = "text-delta" -> <<Chunk("text", "")>>
    [] part.type = "tool-call" -> <<Chunk("tool-call", "")>>
    [] part.type = "tool-result" -> <<Chunk("tool-result", "")>>
    [] part.type = "error" -> <<Chunk("error", "")>>
    [] part.type = "finish" -> <<Chunk("finish", part.finishReason)>>
    [] OTHER -> <<>>

\* The switch of stream: the chunks yielded for one part of fullStream.
Translate(part) ==
  CASE part.type = "text-delta" -> <<Chunk("text", "")>>
    [] part.type = "tool-call" -> <<Chunk("tool-call", "")>>
    [] part.type = "tool-result" -> <<Chunk("tool-result", "")>>
    [] part.type = "error" -> <<Chunk("error", "")>>
    [] part.type = "finish" ->
         IF part.finishReason # "tool-calls"
         THEN <<Chunk("finish", part.finishReason)>> ELSE <<>>
    [] OTHER -> <<>>

\* A turn: where the tool loop is, the number of the step it is in, the text
\* deltas of that step, the error parts so far, and the chunks yielded.
\* ret is what execute returned: the finishReason of its AgentOutput, or the
\* code of the error it threw.
IdleTurn ==
  [pc |-> "idle", step |-> 0, deltas |-> 0, errors |-> 0, chunks |-> <<>>, ret |-> ""]

\* The agent and the turn as they are while no call is made on them.
AgentIdle ==
  /\ config = [servers |-> <<"s1", "s2">>, rag |-> FALSE]
  /\ AgentCreated
TurnIdle == turn = IdleTurn

\* No function is being applied, no delegation is in progress.
NoInput == [fn |-> "none"]
NoOutput == [fn |-> "none"]
FunctionIdle == input = NoInput /\ output = NoOutput
\* stack holds one frame per execute in progress, the innermost last; total
\* counts the model invocations of all of them; tool is what the delegation
\* tool invoked last gave to its caller.
NoTool == [path |-> "", outcome |-> "none", raised |-> FALSE, value |-> <<>>]
IdleNest ==
  [pc |-> "idle", stack |-> <<>>, total |-> 0, tool |-> NoTool, result |-> ""]
DelegationIdle == nest = IdleNest

\* The state the executor runs in: createServer has awaited loadAll.
RegistryLoaded ==
  /\ dir = ServerDirectory
  /\ agents = [path \in RegisteredPaths |-> 1]
  /\ configs = [path \in RegisteredPaths |-> ConfigOf(ServerDirectory, 1)]
  /\ load = IdleLoad
  /\ sd = IdleShutdown
  /\ regCall = NoRegCall

ExecutorInit ==
  /\ tasks = <<>>
  /\ nextId = 0
  /\ clock = 0
  /\ bg = <<>>
  /\ streams = [s \in StreamIds |-> IdleStream]
  /\ lastCall = NoCall

Init ==
  /\ RegistryLoaded
  /\ ExecutorInit
  /\ AgentIdle
  /\ TurnIdle
  /\ FunctionIdle
  /\ DelegationIdle

\* Time passes between two handlers.
Tick ==
  /\ clock < MaxClock
  /\ clock' = clock + 1
  /\ lastCall' = NoCall
  /\ UNCHANGED <<functionVars, delegationVars, agentVars, turnVars, registryVars, agents, tasks, nextId, bg, streams>>

\* ------------------------------------------------------------- createTask
\* executeTaskAsync up to its first await: it runs inside createTask's call,
\* before createTask returns.
ExecuteTaskAsyncStart(ts, id, now) ==
  IF id \notin DOMAIN ts THEN ts
  ELSE LET t1 == UpdateTaskStatus(ts, id, "in_progress", now)
       IN  IF RegistryHas(ts[id].agentPath) THEN t1
           ELSE UpdateTaskStatus(SetError(t1, id, "Agent not found"), id, "failed", now)

\* createTask that records the task before it looks the agent up.
CreateTaskRecordFirst(path) ==
  /\ nextId < MaxTasks
  /\ LET id == nextId + 1
         t0 == tasks @@ (id :> NewTask(path, clock))
     IN  /\ tasks' = t0
         /\ nextId' = id
         /\ IF ~RegistryHas(path)
            THEN /\ lastCall' = Call("createTask", 0, path, 0, "AGENT_NOT_FOUND", 0, NoTask)
                 /\ bg' = bg
            ELSE /\ lastCall' = Call("createTask", id, path, 0, "ok", 0, t0[id])
                 /\ bg' = bg @@ (id :> "awaiting")
  /\ UNCHANGED <<functionVars, delegationVars, agentVars, turnVars, registryVars, agents, clock, streams>>

CreateTask(path) ==
  IF ~RegistryHas(path)
  THEN /\ lastCall' = Call("createTask", 0, path, 0, "AGENT_NOT_FOUND", 0, NoTask)
       /\ UNCHANGED <<functionVars, delegationVars, agentVars, turnVars, registryVars, agents, tasks, nextId, clock, bg, streams>>
  ELSE /\ nextId < MaxTasks
       /\ \E d \in {0, 1} :
            /\ clock + d <= MaxClock
            /\ LET id == nextId + 1
                   t0 == tasks @@ (id :> NewTask(path, clock))
                   t1 == ExecuteTaskAsyncStart(t0, id, clock + d)
               IN  /\ tasks' = t1
                   /\ nextId' = id
                   /\ clock' = clock + d
                   /\ bg' = bg @@ (id :> IF t1[id].status = "in_progress"
                                         THEN "awaiting" ELSE "rejected")
                   /\ lastCall' = Call("createTask", id, path, 0, "ok", 0, t1[id])
       /\ UNCHANGED <<functionVars, delegationVars, agentVars, turnVars, registryVars, agents, streams>>

\* ------------------------------------------------- background execution
\* agent.execute resolved: lines 60-63.
ExecuteTaskAsyncResolveKeep(id) ==
  /\ id \in DOMAIN bg
  /\ bg[id] = "awaiting"
  /\ bg' = [bg EXCEPT ![id] = "resolved"]
  /\ lastCall' = NoCall
  /\ UNCHANGED <<functionVars, delegationVars, agentVars, turnVars, registryVars, agents, tasks, nextId, clock, streams>>

ExecuteTaskAsyncResolve(id) ==
  /\ id \in DOMAIN bg
  /\ bg[id] = "awaiting"
  /\ tasks' = UpdateTaskStatus(SetResult(tasks, id, AgentOutput), id, "completed", clock)
  /\ bg' = [bg EXCEPT ![id] = "resolved"]
  /\ lastCall' = NoCall
  /\ UNCHANGED <<functionVars, delegationVars, agentVars, turnVars, registryVars, agents, nextId, clock, streams>>

\* agent.execute rejected: lines 64-69.
ExecuteTaskAsyncReject(id) ==
  /\ id \in DOMAIN bg
  /\ bg[id] = "awaiting"
  /\ tasks' = UpdateTaskStatus(SetError(tasks, id, ExecuteError), id, "failed", clock)
  /\ bg' = [bg EXCEPT ![id] = "rejected"]
  /\ lastCall' = NoCall
  /\ UNCHANGED <<functionVars, delegationVars, agentVars, turnVars, registryVars, agents, nextId, clock, streams>>

\* -------------------------------------------------------------- cancelTask
\* cancelTask without the test for a terminal status.
CancelTaskAlways(id) ==
  /\ IF id \notin DOMAIN tasks
     THEN /\ lastCall' = Call("cancelTask", id, "", 0, "false", 0, NoTask)
          /\ tasks' = tasks
     ELSE /\ tasks' = UpdateTaskStatus(tasks, id, "cancelled", clock)
          /\ lastCall' = Call("cancelTask", id, "", 0, "true", 0, NoTask)
  /\ UNCHANGED <<functionVars, delegationVars, agentVars, turnVars, registryVars, agents, nextId, clock, bg, streams>>

CancelTask(id) ==
  /\ IF id \notin DOMAIN tasks
     THEN /\ lastCall' = Call("cancelTask", id, "", 0, "false", 0, NoTask)
          /\ tasks' = tasks
     ELSE IF tasks[id].status \in {"completed", "failed", "cancelled"}
     THEN /\ lastCall' = Call("cancelTask", id, "", 0, "false", 0, NoTask)
          /\ tasks' = tasks
     ELSE /\ tasks' = UpdateTaskStatus(tasks, id, "cancelled", clock)
          /\ lastCall' = Call("cancelTask", id, "", 0, "true", 0, NoTask)
  /\ UNCHANGED <<functionVars, delegationVars, agentVars, turnVars, registryVars, agents, nextId, clock, bg, streams>>

\* --------------------------------------------------------- cleanupOldTasks
\* The tasks the loop of cleanupOldTasks deletes.
CleanupVictimsAtLeast(ts, now, maxAgeMs) ==
  {id \in DOMAIN ts :
     /\ now - GetTime(ts[id].updatedAt) >= maxAgeMs
     /\ ts[id].status \in {"completed", "failed"}}

CleanupVictimsAnyTerminal(ts, now, maxAgeMs) ==
  {id \in DOMAIN ts :
     /\ now - GetTime(ts[id].updatedAt) > maxAgeMs
     /\ ts[id].status \in Terminal}

CleanupVictims(ts, now, maxAgeMs) ==
  {id \in DOMAIN ts :
     /\ now - GetTime(ts[id].updatedAt) > maxAgeMs
     /\ ts[id].status \in {"completed", "failed"}}

CleanupOldTasks(maxAgeMs) ==
  /\ LET victims == CleanupVictims(tasks, clock, maxAgeMs)
     IN  /\ tasks' = [id \in DOMAIN tasks \ victims |-> tasks[id]]
         /\ lastCall' = Call("cleanupOldTasks", 0, "", maxAgeMs, "ok", Cardinality(victims), NoTask)
  /\ UNCHANGED <<functionVars, delegationVars, agentVars, turnVars, registryVars, agents, nextId, clock, bg, streams>>

\* ------------------------------------------------------- executeTaskStream
Event(type, data) == [type |-> type, data |-> data]

\* The event executeTaskStream yields for one chunk of agent.stream
\* (the switch of lines 86-100); <<>> when it yields none.
ChunkEvents(chunk) ==
  CASE chunk = "text" -> <<Event("text", "x")>>
    [] chunk \in {"tool-call", "tool-result"} -> <<Event("artifact", chunk)>>
    [] chunk = "error" -> <<Event("error", "chunk error")>>
    [] OTHER -> <<>>

\* The first call of next(): lines 73-80, up to the first yield.
ExecuteTaskStream(s, id) ==
  /\ streams[s].pc = "idle"
  /\ IF id \notin DOMAIN tasks
     THEN /\ lastCall' = Call("executeTaskStream", id, "", 0, "A2A_TASK_ERROR", 0, NoTask)
          /\ UNCHANGED <<tasks, streams>>
     ELSE /\ tasks' = UpdateTaskStatus(tasks, id, "in_progress", clock)
          /\ streams' = [streams EXCEPT ![s] =
               [task |-> id, pc |-> "running", n |-> 0, fullText |-> <<>>,
                events |-> <<Event("status", "in_progress")>>]]
          /\ lastCall' = Call("executeTaskStream", id, "", 0, "ok", 0, NoTask)
  /\ UNCHANGED <<functionVars, delegationVars, agentVars, turnVars, registryVars, agents, nextId, clock, bg>>

\* agent.stream yields one chunk: one turn of the loop of lines 85-101.
StreamChunk(s, chunk) ==
  /\ streams[s].pc = "running"
  /\ streams[s].n < MaxChunks
  /\ streams' = [streams EXCEPT
       ![s].n = @ + 1,
       ![s].fullText = IF chunk = "text" THEN Append(@, "x") ELSE @,
       ![s].events = @ \o ChunkEvents(chunk)]
  /\ lastCall' = NoCall
  /\ UNCHANGED <<functionVars, delegationVars, agentVars, turnVars, registryVars, agents, tasks, nextId, clock, bg>>

\* agent.stream is exhausted: lines 103-105.
StreamEnd(s) ==
  /\ streams[s].pc = "running"
  /\ LET id == streams[s].task
         r == [kind |-> "output", text |-> streams[s].fullText]
     IN  tasks' = UpdateTaskStatus(SetResult(tasks, id, r), id, "completed", clock)
  /\ streams' = [streams EXCEPT
       ![s].pc = "done", ![s].n = 0, ![s].fullText = <<>>,
       ![s].events = Append(@, Event("complete", "completed"))]
  /\ lastCall' = NoCall
  /\ UNCHANGED <<functionVars, delegationVars, agentVars, turnVars, registryVars, agents, nextId, clock, bg>>

\* The catch block without its yield of the error event.
StreamThrowSilent(s) ==
  /\ streams[s].pc = "running"
  /\ LET id == streams[s].task
     IN  tasks' = UpdateTaskStatus(SetError(tasks, id, StreamError), id, "failed", clock)
  /\ streams' = [streams EXCEPT ![s].pc = "done", ![s].n = 0, ![s].fullText = <<>>]
  /\ lastCall' = NoCall
  /\ UNCHANGED <<functionVars, delegationVars, agentVars, turnVars, registryVars, agents, nextId, clock, bg>>

\* registry.get or agent.stream throws: the catch of lines 108-114.
StreamThrow(s) ==
  /\ streams[s].pc = "running"
  /\ LET id == streams[s].task
     IN  tasks' = UpdateTaskStatus(SetError(tasks, id, StreamError), id, "failed", clock)
  /\ streams' = [streams EXCEPT
       ![s].pc = "done", ![s].n = 0, ![s].fullText = <<>>,
       ![s].events = Append(@, Event("error", StreamError))]
  /\ lastCall' = NoCall
  /\ UNCHANGED <<functionVars, delegationVars, agentVars, turnVars, registryVars, agents, nextId, clock, bg>>

\* ----------------------------------------------------------- specification
Next ==
  \/ Tick
  \/ \E path \in Paths : CreateTask(path)
  \/ \E id \in TaskIds : ExecuteTaskAsyncResolve(id)
  \/ \E id \in TaskIds : ExecuteTaskAsyncReject(id)
  \/ \E id \in TaskIds : CancelTask(id)
  \/ \E maxAgeMs \in 0..MaxAge : CleanupOldTasks(maxAgeMs)
  \/ \E s \in StreamIds, id \in TaskIds : ExecuteTaskStream(s, id)
  \/ \E s \in StreamIds, chunk \in ChunkTypes : StreamChunk(s, chunk)
  \/ \E s \in StreamIds : StreamEnd(s)
  \/ \E s \in StreamIds : StreamThrow(s)

Spec == Init /\ [][Next]_vars

\* agent.execute of some task settles and the event loop runs the
\* continuation of its executeTaskAsync.
Settle == \E id \in TaskIds : ExecuteTaskAsyncResolve(id) \/ ExecuteTaskAsyncReject(id)

\* A settled promise's continuation is always run: a task waiting for
\* agent.execute is not left waiting forever.
LiveSpec == Init /\ [][Next]_vars /\ WF_vars(Settle)

\* ================================================================ registry
\* A registry as constructed: both maps empty, over any config directory.
RegistryInit ==
  /\ dir \in Directories
  /\ agents = <<>>
  /\ configs = <<>>
  /\ load = IdleLoad
  /\ sd = IdleShutdown
  /\ regCall = NoRegCall
  /\ ExecutorInit
  /\ AgentIdle
  /\ TurnIdle
  /\ FunctionIdle
  /\ DelegationIdle

\* loadAll up to its await of readdir.
LoadAll ==
  /\ load.pc = "idle"
  /\ load' = [pc |-> "readdir", queue |-> <<>>]
  /\ regCall' = NoRegCall
  /\ UNCHANGED <<agents, configs, dir, sd, executorVars, agentVars, turnVars,
               functionVars, delegationVars>>

\* readdir rejects and loadAll rethrows.
LoadAllReaddirRethrow ==
  /\ load.pc = "readdir"
  /\ IF ~dir.exists
     THEN /\ load' = IdleLoad
          /\ regCall' = RegCall("loadAll", "ENOENT", "readdir", 0)
     ELSE IF JsonFiles(dir) = <<>>
     THEN /\ load' = IdleLoad
          /\ regCall' = RegCall("loadAll", "ok", "", 0)
     ELSE /\ load' = [pc |-> "readFile", queue |-> JsonFiles(dir)]
          /\ regCall' = NoRegCall
  /\ UNCHANGED <<agents, configs, dir, sd, executorVars, agentVars, turnVars,
               functionVars, delegationVars>>

\* readdir settles: a rejection is logged and loadAll returns; otherwise the
\* .json files are filtered and loadConfig of the first one runs up to its
\* await of readFile.
LoadAllReaddir ==
  /\ load.pc = "readdir"
  /\ IF ~dir.exists
     THEN /\ load' = IdleLoad
          /\ regCall' = RegCall("loadAll", "ok", "", 0)
     ELSE IF JsonFiles(dir) = <<>>
     THEN /\ load' = IdleLoad
          /\ regCall' = RegCall("loadAll", "ok", "", 0)
     ELSE /\ load' = [pc |-> "readFile", queue |-> JsonFiles(dir)]
          /\ regCall' = NoRegCall
  /\ UNCHANGED <<agents, configs, dir, sd, executorVars, agentVars, turnVars,
               functionVars, delegationVars>>

\* What follows a file that loaded: loadConfig of the next file up to its
\* readFile, or the return of loadAll.
LoadNext ==
  IF Tail(load.queue) = <<>>
  THEN /\ load' = IdleLoad
       /\ regCall' = RegCall("loadAll", "ok", "", 0)
  ELSE /\ load' = [load EXCEPT !.queue = Tail(@)]
       /\ regCall' = NoRegCall

\* loadConfig without its check of agents.has(config.path).
LoadConfigOverwrite ==
  /\ load.pc = "readFile"
  /\ LET i == Head(load.queue)
         f == dir.files[i]
     IN  IF ~f.valid
         THEN /\ load' = IdleLoad
              /\ regCall' = RegCall("loadAll", "AGENT_CONFIG_ERROR", "invalid", i)
              /\ UNCHANGED <<agents, configs>>
         ELSE /\ agents' = [p \in DOMAIN agents \cup {f.path} |->
                              IF p = f.path THEN i ELSE agents[p]]
              /\ configs' = [p \in DOMAIN configs \cup {f.path} |->
                               IF p = f.path THEN ConfigOf(dir, i) ELSE configs[p]]
              /\ LoadNext
  /\ UNCHANGED <<dir, sd, executorVars, agentVars, turnVars,
               functionVars, delegationVars>>

\* readFile of the file at the head of the queue settles and loadConfig runs
\* to its end: parse, schema, duplicate check, then both maps are set; the
\* loop of loadAll goes on to the next file.  Any throw ends loadAll.
LoadConfig ==
  /\ load.pc = "readFile"
  /\ LET i == Head(load.queue)
         f == dir.files[i]
     IN  IF ~f.valid
         THEN /\ load' = IdleLoad
              /\ regCall' = RegCall("loadAll", "AGENT_CONFIG_ERROR", "invalid", i)
              /\ UNCHANGED <<agents, configs>>
         ELSE IF f.path \in DOMAIN agents
         THEN /\ load' = IdleLoad
              /\ regCall' = RegCall("loadAll", "AGENT_CONFIG_ERROR", "duplicate", i)
              /\ UNCHANGED <<agents, configs>>
         ELSE /\ agents' = [p \in DOMAIN agents \cup {f.path} |->
                              IF p = f.path THEN i ELSE agents[p]]
              /\ configs' = [p \in DOMAIN configs \cup {f.path} |->
                               IF p = f.path THEN ConfigOf(dir, i) ELSE configs[p]]
              /\ LoadNext
  /\ UNCHANGED <<dir, sd, executorVars, agentVars, turnVars,
               functionVars, delegationVars>>

\* The agents registered now: Array.from(this.agents.values()).
AgentValues == {agents[path] : path \in DOMAIN agents}

\* shutdownAll up to its await of Promise.all: shutdown is called on every
\* agent of the snapshot, each promise with its own catch.
ShutdownAll ==
  /\ sd.pc = "idle"
  /\ sd' = [pc |-> "awaiting", snapshot |-> AgentValues, pending |-> AgentValues,
            failed |-> {}]
  /\ regCall' = NoRegCall
  /\ UNCHANGED <<agents, configs, dir, load, executorVars, agentVars, turnVars,
               functionVars, delegationVars>>

\* The shutdown of one agent settles; a rejection is caught and logged.
AgentShutdownSettle(a, ok) ==
  /\ sd.pc = "awaiting"
  /\ a \in sd.pending
  /\ sd' = [sd EXCEPT !.pending = @ \ {a},
                      !.failed = IF ok THEN @ ELSE @ \cup {a}]
  /\ regCall' = NoRegCall
  /\ UNCHANGED <<agents, configs, dir, load, executorVars, agentVars, turnVars,
               functionVars, delegationVars>>

\* The maps cleared without waiting for the pending shutdowns.
ShutdownAllFinishEarly ==
  /\ sd.pc = "awaiting"
  /\ agents' = <<>>
  /\ configs' = <<>>
  /\ sd' = IdleShutdown
  /\ regCall' = RegCall("shutdownAll", "ok", IF sd.failed = {} THEN "" ELSE "logged", 0)
  /\ UNCHANGED <<dir, load, executorVars, agentVars, turnVars,
               functionVars, delegationVars>>

\* Only the agents map cleared.
ShutdownAllFinishAgentsOnly ==
  /\ sd.pc = "awaiting"
  /\ sd.pending = {}
  /\ agents' = <<>>
  /\ sd' = IdleShutdown
  /\ regCall' = RegCall("shutdownAll", "ok", IF sd.failed = {} THEN "" ELSE "logged", 0)
  /\ UNCHANGED <<configs, dir, load, executorVars, agentVars, turnVars,
               functionVars, delegationVars>>

\* Promise.all has resolved: both maps are cleared and shutdownAll returns.
ShutdownAllFinish ==
  /\ sd.pc = "awaiting"
  /\ sd.pending = {}
  /\ agents' = <<>>
  /\ configs' = <<>>
  /\ sd' = IdleShutdown
  /\ regCall' = RegCall("shutdownAll", "ok", IF sd.failed = {} THEN "" ELSE "logged", 0)
  /\ UNCHANGED <<dir, load, executorVars, agentVars, turnVars,
               functionVars, delegationVars>>

\* reload(path) up to its first await: AgentNotFoundError for a path without
\* a config; otherwise shutdown is called on the registered agent.  The file
\* it will read is `${config.id}.json`.
Reload(path) ==
  /\ load.pc = "idle"
  /\ IF path \notin DOMAIN configs
     THEN /\ load' = load
          /\ regCall' = RegCall("reload", "AGENT_NOT_FOUND", "", 0)
     ELSE /\ load' = [pc |-> IF path \in DOMAIN agents THEN "reloadShutdown"
                                                        ELSE "reloadReadFile",
                      queue |-> <<configs[path].id>>]
          /\ regCall' = NoRegCall
  /\ UNCHANGED <<agents, configs, dir, sd, executorVars, agentVars, turnVars,
               functionVars, delegationVars>>

\* existingAgent.shutdown() settles: a rejection leaves reload; otherwise
\* loadConfig(file) runs up to its await of readFile.
ReloadShutdownSettle(ok) ==
  /\ load.pc = "reloadShutdown"
  /\ IF ok
     THEN /\ load' = [load EXCEPT !.pc = "reloadReadFile"]
          /\ regCall' = NoRegCall
     ELSE /\ load' = IdleLoad
          /\ regCall' = RegCall("reload", "shutdown failed", "", Head(load.queue))
  /\ UNCHANGED <<agents, configs, dir, sd, executorVars, agentVars, turnVars,
               functionVars, delegationVars>>

\* readFile settles and loadConfig runs to its end, as in loadAll: the path
\* is checked against the agents map as it is now, from which reload has
\* removed nothing.
ReloadLoadConfig ==
  /\ load.pc = "reloadReadFile"
  /\ LET i == Head(load.queue)
         f == dir.files[i]
     IN  IF ~f.valid
         THEN /\ regCall' = RegCall("reload", "AGENT_CONFIG_ERROR", "invalid", i)
              /\ UNCHANGED <<agents, configs>>
         ELSE IF f.path \in DOMAIN agents
         THEN /\ regCall' = RegCall("reload", "AGENT_CONFIG_ERROR", "duplicate", i)
              /\ UNCHANGED <<agents, configs>>
         ELSE /\ agents' = [p \in DOMAIN agents \cup {f.path} |->
                              IF p = f.path THEN i ELSE agents[p]]
              /\ configs' = [p \in DOMAIN configs \cup {f.path} |->
                               IF p = f.path THEN ConfigOf(dir, i) ELSE configs[p]]
              /\ regCall' = RegCall("reload", "ok", "", i)
  /\ load' = IdleLoad
  /\ UNCHANGED <<dir, sd, executorVars, agentVars, turnVars,
               functionVars, delegationVars>>

RegistryNext ==
  \/ LoadAll
  \/ LoadAllReaddir
  \/ LoadConfig
  \/ ShutdownAll
  \/ \E a \in AgentIds, ok \in BOOLEAN : AgentShutdownSettle(a, ok)
  \/ ShutdownAllFinish
  \/ \E path \in ConfigPaths \cup {"unknown"} : Reload(path)
  \/ \E ok \in BOOLEAN : ReloadShutdownSettle(ok)
  \/ ReloadLoadConfig

RegistrySpec == RegistryInit /\ [][RegistryNext]_vars

\* =================================================================== agent
\* One BaseAgent with its McpClientManager, called by up to two callers at
\* a time (a turn, an initialize, a shutdown from the registry).
AgentInit ==
  /\ config \in AgentConfigs
  /\ AgentCreated
  /\ RegistryLoaded
  /\ ExecutorInit
  /\ TurnIdle
  /\ FunctionIdle
  /\ DelegationIdle

\* initialize after one server of the loop is done with: the connect of the
\* next one up to its await, or lines 96-127 and the return to the caller.
InitContinue(p, kind, rest, got) ==
  IF rest # <<>>
  THEN /\ procs' = [procs EXCEPT ![p] =
            [kind |-> kind, pc |-> "connect", queue |-> rest, got |-> got,
             client |-> 0, closing |-> {}]]
       /\ agentCall' = NoAgentCall
       /\ UNCHANGED <<retriever, initialized>>
  ELSE /\ retriever' = IF config.rag THEN "open" ELSE retriever
       /\ initialized' = TRUE
       /\ IF kind = "execute"
          THEN /\ procs' = [procs EXCEPT ![p] = [IdleProc EXCEPT !.kind = kind, !.pc = "generate"]]
               /\ agentCall' = NoAgentCall
          ELSE /\ procs' = [procs EXCEPT ![p] = IdleProc]
               /\ agentCall' = AgentCall("initialize", p, "ok")

\* initialize without its test of this.initialized.
InitializeAgain(p) ==
  /\ procs[p].pc = "idle"
  /\ InitContinue(p, "initialize", config.servers, {})
  /\ UNCHANGED <<config, connections, openClients, nextClient, mcpClients, tools,
                 everShutdown, agents, registryVars, executorVars, turnVars, functionVars, delegationVars>>

\* A call of initialize, up to its first await.
Initialize(p) ==
  /\ procs[p].pc = "idle"
  /\ IF initialized
     THEN /\ agentCall' = AgentCall("initialize", p, "already")
          /\ UNCHANGED <<procs, retriever, initialized>>
     ELSE InitContinue(p, "initialize", config.servers, {})
  /\ UNCHANGED <<config, connections, openClients, nextClient, mcpClients, tools,
                 everShutdown, agents, registryVars, executorVars, turnVars, functionVars, delegationVars>>

\* A call of execute or of stream, up to its first await: initialize when
\* the agent is not initialized, the model call otherwise.
Execute(p) ==
  /\ procs[p].pc = "idle"
  /\ IF initialized
     THEN /\ procs' = [procs EXCEPT ![p] = [IdleProc EXCEPT !.kind = "execute", !.pc = "generate"]]
          /\ agentCall' = NoAgentCall
          /\ UNCHANGED <<retriever, initialized>>
     ELSE InitContinue(p, "execute", config.servers, {})
  /\ UNCHANGED <<config, connections, openClients, nextClient, mcpClients, tools,
                 everShutdown, agents, registryVars, executorVars, turnVars, functionVars, delegationVars>>

\* A failed connect that ends initialize instead of being logged.
ConnectSettleFailFast(p, ok) ==
  /\ procs[p].pc = "connect"
  /\ IF ok
     THEN /\ nextClient < MaxClients
          /\ connections' = [src \in DOMAIN connections \cup {Head(procs[p].queue)} |->
                IF src = Head(procs[p].queue) THEN nextClient + 1 ELSE connections[src]]
          /\ openClients' = openClients \cup {nextClient + 1}
          /\ nextClient' = nextClient + 1
          /\ mcpClients' = mcpClients \cup {Head(procs[p].queue)}
          /\ procs' = [procs EXCEPT ![p].pc = "listTools", ![p].client = nextClient + 1]
          /\ agentCall' = NoAgentCall
          /\ UNCHANGED <<retriever, initialized>>
     ELSE /\ procs' = [procs EXCEPT ![p] = IdleProc]
          /\ agentCall' = AgentCall(procs[p].kind, p, "MCP_CONNECTION_ERROR")
          /\ UNCHANGED <<connections, openClients, nextClient, mcpClients, retriever,
                         initialized>>
  /\ UNCHANGED <<config, tools, everShutdown, agents, registryVars, executorVars, turnVars, functionVars, delegationVars>>

\* client.connect of the server at the head of the queue settles.  Resolved:
\* the connection is stored (client-manager.ts:29-34), the client is noted
\* and listTools is awaited.  Rejected: logged, and the loop goes on.
ConnectSettle(p, ok) ==
  /\ procs[p].pc = "connect"
  /\ IF ok
     THEN /\ nextClient < MaxClients
          /\ connections' = [src \in DOMAIN connections \cup {Head(procs[p].queue)} |->
                IF src = Head(procs[p].queue) THEN nextClient + 1 ELSE connections[src]]
          /\ openClients' = openClients \cup {nextClient + 1}
          /\ nextClient' = nextClient + 1
          /\ mcpClients' = mcpClients \cup {Head(procs[p].queue)}
          /\ procs' = [procs EXCEPT ![p].pc = "listTools", ![p].client = nextClient + 1]
          /\ agentCall' = NoAgentCall
          /\ UNCHANGED <<retriever, initialized>>
     ELSE /\ InitContinue(p, procs[p].kind, Tail(procs[p].queue), procs[p].got)
          /\ UNCHANGED <<connections, openClients, nextClient, mcpClients>>
  /\ UNCHANGED <<config, tools, everShutdown, agents, registryVars, executorVars, turnVars, functionVars, delegationVars>>

\* client.listTools settles.  Resolved (the client must still be open): the
\* tools are added to this.tools.  Rejected: logged.  The loop goes on.
ListToolsSettle(p, ok) ==
  /\ procs[p].pc = "listTools"
  /\ ok => procs[p].client \in openClients
  /\ tools' = IF ok THEN tools \cup ToolsOf(Head(procs[p].queue)) ELSE tools
  /\ InitContinue(p, procs[p].kind, Tail(procs[p].queue),
                  IF ok THEN procs[p].got \cup {Head(procs[p].queue)} ELSE procs[p].got)
  /\ UNCHANGED <<config, connections, openClients, nextClient, mcpClients,
                 everShutdown, agents, registryVars, executorVars, turnVars, functionVars, delegationVars>>

\* The model call of execute settles and execute returns or throws.
GenerateSettle(p, ok) ==
  /\ procs[p].pc = "generate"
  /\ procs' = [procs EXCEPT ![p] = IdleProc]
  /\ agentCall' = AgentCall("execute", p, IF ok THEN "ok" ELSE "AGENT_EXECUTION_ERROR")
  /\ UNCHANGED <<config, initialized, connections, openClients, nextClient, mcpClients,
                 tools, retriever, everShutdown, agents, registryVars, executorVars,
                 turnVars, functionVars, delegationVars>>

\* A call of shutdown, up to the await of Promise.all in disconnectAll: every
\* connection of the table has its client.close() pending.
Shutdown(p) ==
  /\ procs[p].pc = "idle"
  /\ procs' = [procs EXCEPT ![p] =
       [IdleProc EXCEPT !.kind = "shutdown", !.pc = "disconnecting",
                        !.closing = {<<src, connections[src]>> : src \in DOMAIN connections}]]
  /\ agentCall' = NoAgentCall
  /\ UNCHANGED <<config, initialized, connections, openClients, nextClient, mcpClients,
                 tools, retriever, everShutdown, agents, registryVars, executorVars,
                 turnVars, functionVars, delegationVars>>

\* client.close() of one connection settles (a rejection is logged) and the
\* entry the table holds under that id now is deleted.
CloseSettle(p, src) ==
  /\ procs[p].pc = "disconnecting"
  /\ \E c \in procs[p].closing :
       /\ c[1] = src
       /\ openClients' = openClients \ {c[2]}
       /\ procs' = [procs EXCEPT ![p].closing = @ \ {c}]
  /\ connections' = [s \in DOMAIN connections \ {src} |-> connections[s]]
  /\ agentCall' = NoAgentCall
  /\ UNCHANGED <<config, initialized, nextClient, mcpClients, tools, retriever,
                 everShutdown, agents, registryVars, executorVars, turnVars, functionVars, delegationVars>>

\* What ends shutdown: lines 278-279.
ShutdownReturn(p) ==
  /\ initialized' = FALSE
  /\ everShutdown' = TRUE
  /\ procs' = [procs EXCEPT ![p] = IdleProc]
  /\ agentCall' = AgentCall("shutdown", p, "ok")

\* disconnectAll has resolved: the retriever's close is awaited, or, without
\* a retriever, shutdown marks the agent uninitialized and returns.
DisconnectAllDone(p) ==
  /\ procs[p].pc = "disconnecting"
  /\ procs[p].closing = {}
  /\ IF retriever # "null"
     THEN /\ procs' = [procs EXCEPT ![p].pc = "closeRetriever"]
          /\ agentCall' = NoAgentCall
          /\ UNCHANGED <<initialized, everShutdown>>
     ELSE ShutdownReturn(p)
  /\ UNCHANGED <<config, connections, openClients, nextClient, mcpClients, tools,
                 retriever, agents, registryVars, executorVars, turnVars, functionVars, delegationVars>>

\* retriever.close() has resolved: the retriever is released and shutdown
\* marks the agent uninitialized and returns.
RetrieverClosed(p) ==
  /\ procs[p].pc = "closeRetriever"
  /\ retriever' = "null"
  /\ ShutdownReturn(p)
  /\ UNCHANGED <<config, connections, openClients, nextClient, mcpClients, tools,
                 agents, registryVars, executorVars, turnVars, functionVars, delegationVars>>

AgentNext ==
  \/ \E p \in ProcIds : Initialize(p)
  \/ \E p \in ProcIds : Execute(p)
  \/ \E p \in ProcIds, ok \in BOOLEAN : ConnectSettle(p, ok)
  \/ \E p \in ProcIds, ok \in BOOLEAN : ListToolsSettle(p, ok)
  \/ \E p \in ProcIds, ok \in BOOLEAN : GenerateSettle(p, ok)
  \/ \E p \in ProcIds : Shutdown(p)
  \/ \E p \in ProcIds, src \in Sources : CloseSettle(p, src)
  \/ \E p \in ProcIds : DisconnectAllDone(p)
  \/ \E p \in ProcIds : RetrieverClosed(p)

AgentSpec == AgentInit /\ [][AgentNext]_vars

\* ==================================================================== turn
\* One turn of stream on an initialized agent with tools.  The parts come
\* from the tool loop of streamText: a step streams text deltas and either
\* ends with a normal finish reason or calls a tool and, with the result fed
\* back, ends with finish reason tool-calls; the loop goes on after a
\* tool-calls step until stepCountIs(5) stops it.  A step end is reported by
\* a finish-step part and the end of the loop by a finish part.
TurnInit ==
  /\ turn = IdleTurn
  /\ RegistryLoaded
  /\ ExecutorInit
  /\ AgentIdle
  /\ FunctionIdle
  /\ DelegationIdle

\* stream up to the first read of fullStream.
StreamStart ==
  /\ turn.pc = "idle"
  /\ turn' = [turn EXCEPT !.pc = "model", !.step = 1]
  /\ UNCHANGED <<agents, registryVars, executorVars, agentVars, functionVars,
               delegationVars>>

\* The model streams a text delta.
PartTextDelta ==
  /\ turn.pc = "model"
  /\ turn.deltas < MaxDeltas
  /\ turn' = [turn EXCEPT !.deltas = @ + 1,
                          !.chunks = @ \o Translate(Part("text-delta", ""))]
  /\ UNCHANGED <<agents, registryVars, executorVars, agentVars, functionVars,
               delegationVars>>

\* The model requests a tool call.
PartToolCall ==
  /\ turn.pc = "model"
  /\ turn' = [turn EXCEPT !.pc = "tool",
                          !.chunks = @ \o Translate(Part("tool-call", ""))]
  /\ UNCHANGED <<agents, registryVars, executorVars, agentVars, functionVars,
               delegationVars>>

\* The tool returns (tool-result) or throws (tool-error).
PartToolResult(type) ==
  /\ turn.pc = "tool"
  /\ turn' = [turn EXCEPT !.pc = "called", !.chunks = @ \o Translate(Part(type, ""))]
  /\ UNCHANGED <<agents, registryVars, executorVars, agentVars, functionVars,
               delegationVars>>

\* A step that called a tool ends below the cap: the loop goes on with the
\* next step.  The end of the step is a finish-step part; a provider that
\* reports it as a finish part with reason tool-calls is covered too.
NextStepUncapped(type) ==
  /\ turn.pc = "called"
  /\ turn' = [turn EXCEPT !.pc = "model", !.step = @ + 1, !.deltas = 0,
                          !.chunks = @ \o Translate(Part(type, "tool-calls"))]
  /\ UNCHANGED <<agents, registryVars, executorVars, agentVars, functionVars,
               delegationVars>>

NextStep(type) ==
  /\ turn.pc = "called"
  /\ turn.step < StepCap
  /\ turn' = [turn EXCEPT !.pc = "model", !.step = @ + 1, !.deltas = 0,
                          !.chunks = @ \o Translate(Part(type, "tool-calls"))]
  /\ UNCHANGED <<agents, registryVars, executorVars, agentVars, functionVars,
               delegationVars>>

\* The loop ends: a step without a tool call ends with a normal reason, or
\* the step at the cap ends with reason tool-calls.  fullStream ends with
\* the finish part carrying the reason of the last step.
PartFinish(reason) ==
  /\ \/ turn.pc = "model" /\ reason \in {"stop", "length"}
     \/ turn.pc = "called" /\ turn.step = StepCap /\ reason = "tool-calls"
  /\ turn' = [turn EXCEPT !.pc = "done", !.deltas = 0,
                          !.chunks = @ \o Translate(Part("finish", reason))]
  /\ UNCHANGED <<agents, registryVars, executorVars, agentVars, functionVars,
               delegationVars>>

\* fullStream delivers an error part; the for-await loop goes on.
PartError ==
  /\ turn.pc \in {"model", "tool", "called"}
  /\ turn.errors < MaxErrors
  /\ turn' = [turn EXCEPT !.errors = @ + 1,
                          !.chunks = @ \o Translate(Part("error", ""))]
  /\ UNCHANGED <<agents, registryVars, executorVars, agentVars, functionVars,
               delegationVars>>

\* fullStream ends after an error part without a finish part.
StreamCloses ==
  /\ turn.pc \in {"model", "tool", "called"}
  /\ turn.errors > 0
  /\ turn' = [turn EXCEPT !.pc = "done", !.deltas = 0]
  /\ UNCHANGED <<agents, registryVars, executorVars, agentVars, functionVars,
               delegationVars>>

\* Reading fullStream throws: the catch yields one error chunk and stream
\* returns.
StreamRaises ==
  /\ turn.pc \in {"model", "tool", "called"}
  /\ turn' = [turn EXCEPT !.pc = "done", !.deltas = 0,
                          !.chunks = Append(@, Chunk("error", ""))]
  /\ UNCHANGED <<agents, registryVars, executorVars, agentVars, functionVars,
               delegationVars>>

\* execute(input) reaches generateText: the first model invocation of the turn.
\* With tools the call carries maxSteps: 5; without tools no step can call a
\* tool, which is the run that returns from the first step.
TurnExecute ==
  /\ turn.pc = "idle"
  /\ turn' = [turn EXCEPT !.pc = "invoke", !.step = 1]
  /\ UNCHANGED <<agents, registryVars, executorVars, agentVars, functionVars,
               delegationVars>>

\* The model's step asks for a tool and generateText runs it; a tool that
\* throws gives the model a tool error, never an exception of generateText.
GenerateToolCall ==
  /\ turn.pc = "invoke"
  /\ turn' = [turn EXCEPT !.pc = "invoked"]
  /\ UNCHANGED <<agents, registryVars, executorVars, agentVars, functionVars,
               delegationVars>>

\* generateText invokes the model again with the tool's result, as long as
\* fewer than maxSteps steps have run.
GenerateNextStep ==
  /\ turn.pc = "invoked"
  /\ turn.step < StepCap
  /\ turn' = [turn EXCEPT !.pc = "invoke", !.step = @ + 1]
  /\ UNCHANGED <<agents, registryVars, executorVars, agentVars, functionVars,
               delegationVars>>

\* generateText resolves and execute returns an AgentOutput whose finishReason
\* is result.finishReason, the last step's: the model's own reason, or
\* tool-calls when the last allowed step still called a tool.
GenerateReturns(reason) ==
  /\ \/ turn.pc = "invoke" /\ reason \in {"stop", "length"}
     \/ turn.pc = "invoked" /\ turn.step = StepCap /\ reason = "tool-calls"
  /\ turn' = [turn EXCEPT !.pc = "returned", !.ret = reason]
  /\ UNCHANGED <<agents, registryVars, executorVars, agentVars, functionVars,
               delegationVars>>

\* generateText rejects (the provider failed): execute's catch throws an
\* AgentExecutionError.
GenerateThrows ==
  /\ turn.pc \in {"invoke", "invoked"}
  /\ turn' = [turn EXCEPT !.pc = "returned", !.ret = ExecuteError]
  /\ UNCHANGED <<agents, registryVars, executorVars, agentVars, functionVars,
               delegationVars>>

TurnNext ==
  \/ StreamStart
  \/ PartTextDelta
  \/ PartToolCall
  \/ \E type \in {"tool-result", "tool-error"} : PartToolResult(type)
  \/ \E type \in {"finish-step", "finish"} : NextStep(type)
  \/ \E reason \in {"stop", "length", "tool-calls"} : PartFinish(reason)
  \/ PartError
  \/ StreamCloses
  \/ StreamRaises
  \/ TurnExecute
  \/ GenerateToolCall
  \/ GenerateNextStep
  \/ \E reason \in {"stop", "length", "tool-calls"} : GenerateReturns(reason)
  \/ GenerateThrows

TurnSpec == TurnInit /\ [][TurnNext]_vars

\* -------------------------------------------------------------- retrieval
\* Scores are hundredths: 0, 0.5 and 1.  rag.minScore is a number of [0, 1].
Scores == {0, 50, 100}
\* The L2 distances Chroma reports.
Distances == {0, 1, 3}
Providers == {"pinecone", "chroma", "pgvector"}

SeqsUpTo(S, n) == UNION {[1..k -> S] : k \in 0..n}

\* What the backend answers to one query: whether the requests succeeded
\* (embedding and query), and its matches by score, for Chroma by distance.
Responses(provider) ==
  [ok : BOOLEAN,
   matches : SeqsUpTo(IF provider = "chroma" THEN Distances ELSE Scores, MaxMatches)]

\* One call of buildSystemPromptWithRAG: whether a retriever exists and rag is
\* enabled, the backend, rag.minScore, whether PGVECTOR_API_URL is set, and
\* the backend's answer.
RagInputs ==
  UNION {[fn : {"rag"}, enabled : BOOLEAN, provider : {provider},
          minScore : Scores, apiUrl : BOOLEAN, response : Responses(provider)]
         : provider \in Providers}

Result(score) == [score |-> score]
Results(scores) == [i \in 1..Len(scores) |-> Result(scores[i])]

\* PineconeRetriever.search: the matches whose score is at least minScore.
PineconeSearch(matches, minScore) ==
  Results(SelectSeq(matches, LAMBDA score : score >= minScore))

\* Chroma's conversion of a distance to a similarity, 1 / (1 + distance).
ScoreOfDistance(distance) == 100 \div (1 + distance)

\* ChromaRetriever.search: the converted scores that are at least minScore.
ChromaSearch(distances, minScore) ==
  Results(SelectSeq([i \in 1..Len(distances) |-> ScoreOfDistance(distances[i])],
                    LAMBDA score : score >= minScore))

\* PgVectorRetriever.search: minScore goes into the request; data.results
\* is returned as it came.  Without PGVECTOR_API_URL the result is empty.
PgVectorSearch(results, apiUrl) ==
  IF apiUrl THEN Results(results) ELSE <<>>

Search(in) ==
  CASE in.provider = "pinecone" -> PineconeSearch(in.response.matches, in.minScore)
    [] in.provider = "chroma" -> ChromaSearch(in.response.matches, in.minScore)
    [] in.provider = "pgvector" -> PgVectorSearch(in.response.matches, in.apiUrl)

\* formatContext: the contents of the results inside the template; the
\* empty string for no results.
FormatContext(results) ==
  IF Len(results) = 0 THEN <<>> ELSE <<"## Relevant Context:">> \o results

\* config.systemPrompt, and the prompt with a retrieval section.
BasePrompt == <<"systemPrompt">>
PromptWith(results) == BasePrompt \o <<"\n\n">> \o FormatContext(results)

RagInit ==
  /\ input \in RagInputs
  /\ output = NoOutput
  /\ RegistryLoaded
  /\ ExecutorInit
  /\ AgentIdle
  /\ TurnIdle
  /\ DelegationIdle

\* retriever.search(query, topK) settles: it rejects when a request of the
\* search failed, otherwise it resolves with the backend's search results.
RetrieverSearch ==
  /\ input.fn = "rag"
  /\ input.enabled
  /\ output.fn = "none"
  /\ output' = [fn |-> "search", threw |-> ~input.response.ok,
                results |-> IF input.response.ok THEN Search(input) ELSE <<>>]
  /\ UNCHANGED <<input, agents, registryVars, executorVars, agentVars, turnVars,
               delegationVars>>

\* buildSystemPromptWithRAG returns: the base prompt without a retriever,
\* after a search that threw (the catch) and for no results; otherwise the
\* base prompt followed by the formatted results.
BuildSystemPromptWithRAG ==
  /\ input.fn = "rag"
  /\ \/ /\ ~input.enabled
        /\ output.fn = "none"
        /\ output' = [fn |-> "prompt", searched |-> FALSE, threw |-> FALSE,
                      results |-> <<>>, prompt |-> BasePrompt]
     \/ /\ output.fn = "search"
        /\ output' = [fn |-> "prompt", searched |-> TRUE, threw |-> output.threw,
                      results |-> output.results,
                      prompt |-> IF output.threw \/ Len(output.results) = 0
                                 THEN BasePrompt
                                 ELSE PromptWith(output.results)]
  /\ UNCHANGED <<input, agents, registryVars, executorVars, agentVars, turnVars,
               delegationVars>>

RagNext == RetrieverSearch \/ BuildSystemPromptWithRAG

RagSpec == RagInit /\ [][RagNext]_vars

\* ------------------------------------------------------------- delegation
\* Two agents that delegate to each other; the orchestrator also has a
\* target whose path is not registered.
Registered == {"orchestrator", "worker"}
Targets(path) ==
  IF path = "orchestrator" THEN {"worker", "ghost"} ELSE {"orchestrator"}
TargetPaths == Registered \cup {"ghost"}

Frame(path) == [agent |-> path, step |-> 1, pc |-> "invoke"]
Top == nest.stack[Len(nest.stack)]
Pop == SubSeq(nest.stack, 1, Len(nest.stack) - 1)
SetTop(stack, frame) == [stack EXCEPT ![Len(stack)] = frame]

\* error.message of what the try block threw: registry.get's
\* AgentNotFoundError, or the AgentExecutionError of the target's execute.
Reason(path, outcome) ==
  IF outcome = "not found" THEN <<"Agent not found: ", path>> ELSE <<ExecuteError>>

\* The delegation tool without its catch: what the try block throws leaves
\* the tool.
DelegationToolNoCatch(path, outcome) ==
  [path |-> path, outcome |-> outcome, raised |-> outcome # "text",
   value |-> IF outcome = "text" THEN AgentOutput.text ELSE Reason(path, outcome)]

\* execute of a delegation tool: result.text of the target's execute; what
\* registry.get or execute throws is caught and returned as a string.
DelegationTool(path, outcome) ==
  [path |-> path, outcome |-> outcome, raised |-> FALSE,
   value |-> IF outcome = "text"
             THEN AgentOutput.text
             ELSE <<"Error: Failed to get response from ", path, " agent. ">>
                  \o Reason(path, outcome)]

DelegationInit ==
  /\ nest = IdleNest
  /\ RegistryLoaded
  /\ ExecutorInit
  /\ AgentIdle
  /\ TurnIdle
  /\ FunctionIdle

\* execute of the orchestrator reaches generateText: the turn's first model
\* invocation.
DelegationExecute ==
  /\ nest.pc = "idle"
  /\ nest' = [nest EXCEPT !.pc = "running", !.stack = <<Frame("orchestrator")>>,
                          !.total = 1]
  /\ UNCHANGED <<agents, registryVars, executorVars, agentVars, turnVars,
               functionVars>>

\* The step calls a tool that is not a delegation tool.
ToolCallOther ==
  /\ nest.pc = "running"
  /\ Top.pc = "invoke"
  /\ nest' = [nest EXCEPT !.stack = SetTop(@, [Top EXCEPT !.pc = "invoked"]),
                          !.tool = NoTool]
  /\ UNCHANGED <<agents, registryVars, executorVars, agentVars, turnVars,
               functionVars>>

\* The step calls the delegation tool of a target that is not registered:
\* registry.get throws and the tool is over.
DelegateNotFound(target) ==
  /\ nest.pc = "running"
  /\ Top.pc = "invoke"
  /\ target \in Targets(Top.agent) \ Registered
  /\ nest' = [nest EXCEPT !.stack = SetTop(@, [Top EXCEPT !.pc = "invoked"]),
                          !.tool = DelegationTool(target, "not found")]
  /\ UNCHANGED <<agents, registryVars, executorVars, agentVars, turnVars,
               functionVars>>

\* The step calls the delegation tool of a registered target: the target's
\* execute begins a turn of its own, with its own first model invocation.
Delegate(target) ==
  /\ nest.pc = "running"
  /\ Top.pc = "invoke"
  /\ target \in Targets(Top.agent) \cap Registered
  /\ Len(nest.stack) < MaxDepth
  /\ nest.total < MaxInvocations
  /\ nest' = [nest EXCEPT !.stack = Append(@, Frame(target)), !.total = @ + 1,
                          !.tool = NoTool]
  /\ UNCHANGED <<agents, registryVars, executorVars, agentVars, turnVars,
               functionVars>>

\* generateText of the innermost execute goes on to its next step: below
\* its own maxSteps, whatever the other executes have used.
NestedNextStep ==
  /\ nest.pc = "running"
  /\ Top.pc = "invoked"
  /\ Top.step < StepCap
  /\ nest.total < MaxInvocations
  /\ nest' = [nest EXCEPT !.stack = SetTop(@, [Top EXCEPT !.pc = "invoke",
                                                          !.step = @ + 1]),
                          !.total = @ + 1, !.tool = NoTool]
  /\ UNCHANGED <<agents, registryVars, executorVars, agentVars, turnVars,
               functionVars>>

\* The innermost execute is over: with ok it returns its output, otherwise
\* it throws an AgentExecutionError.  The delegation tool that called it
\* gives its result to the calling step; the outermost execute ends the turn.
NestedSettle(ok) ==
  /\ nest.pc = "running"
  /\ ok => Top.pc = "invoke" \/ Top.step = StepCap
  /\ IF Len(nest.stack) = 1
     THEN nest' = [nest EXCEPT !.pc = "done", !.stack = <<>>, !.tool = NoTool,
                               !.result = IF ok THEN "output" ELSE ExecuteError]
     ELSE nest' = [nest EXCEPT
                     !.stack = SetTop(Pop, [Pop[Len(Pop)] EXCEPT !.pc = "invoked"]),
                     !.tool = DelegationTool(Top.agent,
                                             IF ok THEN "text" ELSE "failed")]
  /\ UNCHANGED <<agents, registryVars, executorVars, agentVars, turnVars,
               functionVars>>

DelegationNext ==
  \/ DelegationExecute
  \/ ToolCallOther
  \/ \E target \in TargetPaths : DelegateNotFound(target)
  \/ \E target \in TargetPaths : Delegate(target)
  \/ NestedNextStep
  \/ \E ok \in BOOLEAN : NestedSettle(ok)

DelegationSpec == DelegationInit /\ [][DelegationNext]_vars

\* ------------------------------------------------------------ tool schemas
\* Object-typed JSON schemas of MCP tools: properties may be missing, and so
\* may required; required may name keys that properties does not have.
Keys == {"a", "b", "c"}
PropTypes == {"string", "number"}
PropertiesOver(K) == [K -> [type : PropTypes]]
ObjectSchemas ==
  UNION {[type : {"object"}, hasProperties : {TRUE}, properties : PropertiesOver(K),
          hasRequired : BOOLEAN, required : SUBSET Keys] : K \in SUBSET Keys}
  \cup [type : {"object"}, hasProperties : {FALSE}, properties : {<<>>},
         hasRequired : BOOLEAN, required : SUBSET Keys]

\* A schema that can be in a file has no required list when hasRequired is
\* false.
SchemaInputs ==
  {[fn |-> "schema", schema |-> S] :
     S \in {T \in ObjectSchemas : ~T.hasRequired => T.required = {}}}

\* jsonSchemaToZod of a property's schema: the decoder of its type.
PropertyToZod(prop) ==
  [kind |-> IF prop.type = "string" THEN "ZodString" ELSE "ZodNumber",
   optional |-> FALSE]
Optional(zodType) == [zodType EXCEPT !.optional = TRUE]

\* jsonSchemaToZod, case 'object': a record of unknowns without properties;
\* otherwise an object whose shape has the keys of properties, each optional
\* unless required includes it.
JsonSchemaToZod(schema) ==
  IF ~schema.hasProperties
  THEN [kind |-> "ZodRecord", shape |-> <<>>]
  ELSE [kind |-> "ZodObject",
        shape |-> [key \in DOMAIN schema.properties |->
                     IF schema.hasRequired /\ key \in schema.required
                     THEN PropertyToZod(schema.properties[key])
                     ELSE Optional(PropertyToZod(schema.properties[key]))]]

\* The keys without which the decoder rejects its argument: those of an
\* object's shape that are not optional; a record requires none.
RequiredKeys(decoder) ==
  IF decoder.kind = "ZodObject"
  THEN {key \in DOMAIN decoder.shape : ~decoder.shape[key].optional}
  ELSE {}

SchemaInit ==
  /\ input \in SchemaInputs
  /\ output = NoOutput
  /\ RegistryLoaded
  /\ ExecutorInit
  /\ AgentIdle
  /\ TurnIdle
  /\ DelegationIdle

\* convertToAiSdkTool translates the tool's inputSchema.
ConvertToAiSdkTool ==
  /\ input.fn = "schema"
  /\ output.fn = "none"
  /\ output' = [fn |-> "zod", decoder |-> JsonSchemaToZod(input.schema)]
  /\ UNCHANGED <<input, agents, registryVars, executorVars, agentVars, turnVars,
               delegationVars>>

SchemaNext == ConvertToAiSdkTool

SchemaSpec == SchemaInit /\ [][SchemaNext]_vars

\* ----------------------------------------------------------- agent configs
\* The parsed JSON of one config file, by the fields AgentConfigSchema
\* constrains: a field that the file lacks is "missing".
Missing == "missing"
RawIds == {"", "sales-agent"}
RawPaths == {"sales", "Sales Desk"}
RawProviders == {Missing, "google", "openai-compatible", "anthropic"}
RawUrls == {"http://llm.local/v1", "not a url"}
RawProviderConfigs ==
  {[present |-> FALSE, baseURL |-> ""]} \cup [present : {TRUE}, baseURL : RawUrls]
RawPrompts == {Missing, "You are a sales agent."}
RawConfigs ==
  [id : RawIds, path : RawPaths, provider : RawProviders,
   providerConfig : RawProviderConfigs, systemPrompt : RawPrompts]
ConfigInputs == {[fn |-> "config", raw |-> raw] : raw \in RawConfigs}

\* z.string().url(), and the path's regex /^[a-z0-9-]+$/.
IsUrl(s) == s = "http://llm.local/v1"
MatchesPathRegex(s) == s = "sales"

\* AgentConfigSchema.parse: every field's own constraint; provider defaults
\* to google; providerConfig is optional whatever the provider.
SchemaAccepts(raw) ==
  /\ raw.id # ""
  /\ raw.path # "" /\ MatchesPathRegex(raw.path)
  /\ raw.provider \in {Missing, "google", "openai-compatible"}
  /\ raw.providerConfig.present => IsUrl(raw.providerConfig.baseURL)
  /\ raw.systemPrompt # Missing
Parse(raw) == [raw EXCEPT !.provider = IF @ = Missing THEN "google" ELSE @]

ConfigInit ==
  /\ input \in ConfigInputs
  /\ output = NoOutput
  /\ RegistryLoaded
  /\ ExecutorInit
  /\ AgentIdle
  /\ TurnIdle
  /\ DelegationIdle

\* loadConfig of a file in an empty registry: the schema's parse throws, which
\* loadConfig rethrows as AgentConfigError, or the config is registered.
LoadConfigParse ==
  /\ input.fn = "config"
  /\ output.fn = "none"
  /\ output' = IF SchemaAccepts(input.raw)
               THEN [fn |-> "loadConfig", ret |-> "ok", config |-> Parse(input.raw)]
               ELSE [fn |-> "loadConfig", ret |-> "AGENT_CONFIG_ERROR",
                     config |-> input.raw]
  /\ UNCHANGED <<input, agents, registryVars, executorVars, agentVars, turnVars,
               delegationVars>>

\* getModel at the first turn of the registered agent: it throws for the
\* openai-compatible provider without providerConfig.baseURL.
GetModel ==
  /\ output.fn = "loadConfig"
  /\ output.ret = "ok"
  /\ output' = [output EXCEPT
                  !.fn = "getModel",
                  !.ret = IF /\ output.config.provider = "openai-compatible"
                             /\ \/ ~output.config.providerConfig.present
                                \/ output.config.providerConfig.baseURL = ""
                          THEN "AGENT_EXECUTION_ERROR"
                          ELSE "model"]
  /\ UNCHANGED <<input, agents, registryVars, executorVars, agentVars, turnVars,
               delegationVars>>

ConfigNext == LoadConfigParse \/ GetModel

ConfigSpec == ConfigInit /\ [][ConfigNext]_vars

\* ------------------------------------------------------- per-request tools
\* What a turn gives to the model: the system prompt and the tools.  Two
\* turns may run on one agent at a time; each is an execute or a stream.
RequestIds == {"r1", "r2"}
Modes == {"execute", "stream"}
\* input.metadata.pageContext: absent, the empty string, a page.
PageContexts == {Missing, "", "page"}
StaticTools == {"s1_tool"}
GetPageContent == "getPageContent"
PageInstruction == "IMPORTANT: You have access to a getPageContent tool"

\* The agent as initialize left it: config.enableTools and this.tools, which
\* initialize fills only with enableTools.
RequestInputs ==
  {[fn |-> "request", enableTools |-> e, tools |-> ts] :
     e \in BOOLEAN, ts \in {{}, StaticTools}} \ 
  {[fn |-> "request", enableTools |-> FALSE, tools |-> StaticTools]}

IdleRequest ==
  [pc |-> "idle", mode |-> "", pageContext |-> Missing, allTools |-> {},
   hasTools |-> FALSE, system |-> <<>>, tools |-> {}]

Truthy(pageContext) == pageContext \notin {Missing, ""}

\* buildToolsWithPageContext with Object.assign(this.tools, ...) in place of
\* the spread into a new object.
BuildToolsWithPageContextAssign(static, pageContext) ==
  IF ~Truthy(pageContext)
  THEN [static |-> static, all |-> static]
  ELSE [static |-> static \cup {GetPageContent}, all |-> static \cup {GetPageContent}]

\* buildToolsWithPageContext: this.tools itself without a page context,
\* otherwise a new object with this.tools and getPageContent.  static is
\* this.tools after the call.
BuildToolsWithPageContext(static, pageContext) ==
  IF ~Truthy(pageContext)
  THEN [static |-> static, all |-> static]
  ELSE [static |-> static, all |-> static \cup {GetPageContent}]

\* The system prompt of the call: what buildSystemPromptWithRAG returned;
\* stream appends the instruction when the input has a page context,
\* execute passes the prompt as it is.
SystemPrompt(mode, pageContext, rag) ==
  (IF rag THEN BasePrompt \o <<"\n\n", "## Relevant Context:">> ELSE BasePrompt)
  \o (IF mode = "stream" /\ Truthy(pageContext) THEN <<PageInstruction>> ELSE <<>>)

RequestInit ==
  /\ input \in RequestInputs
  /\ output = [fn |-> "requests", tools |-> input.tools,
               turns |-> [r \in RequestIds |-> IdleRequest]]
  /\ RegistryLoaded
  /\ ExecutorInit
  /\ AgentIdle
  /\ TurnIdle
  /\ DelegationIdle

\* execute or stream of an initialized agent up to its await of
\* buildSystemPromptWithRAG: allTools and hasTools are computed.
RequestStart(r, mode, pageContext) ==
  /\ input.fn = "request"
  /\ output.turns[r].pc = "idle"
  /\ LET built == BuildToolsWithPageContext(output.tools, pageContext)
     IN  output' = [output EXCEPT
           !.tools = built.static,
           !.turns[r] = [IdleRequest EXCEPT
              !.pc = "rag", !.mode = mode, !.pageContext = pageContext,
              !.allTools = built.all,
              !.hasTools = input.enableTools /\ built.all # {}]]
  /\ UNCHANGED <<input, agents, registryVars, executorVars, agentVars, turnVars,
               delegationVars>>

\* buildSystemPromptWithRAG settles, with or without a retrieval section,
\* and generateText or streamText is called.
RequestCallsModel(r, rag) ==
  /\ input.fn = "request"
  /\ output.turns[r].pc = "rag"
  /\ output' = [output EXCEPT
       !.turns[r].pc = "model",
       !.turns[r].system =
          SystemPrompt(output.turns[r].mode, output.turns[r].pageContext, rag),
       !.turns[r].tools =
          IF output.turns[r].hasTools THEN output.turns[r].allTools ELSE {}]
  /\ UNCHANGED <<input, agents, registryVars, executorVars, agentVars, turnVars,
               delegationVars>>

\* The turn is over.
RequestEnds(r) ==
  /\ input.fn = "request"
  /\ output.turns[r].pc = "model"
  /\ output' = [output EXCEPT !.turns[r] = IdleRequest]
  /\ UNCHANGED <<input, agents, registryVars, executorVars, agentVars, turnVars,
               delegationVars>>

RequestNext ==
  \/ \E r \in RequestIds, mode \in Modes, pageContext \in PageContexts :
       RequestStart(r, mode, pageContext)
  \/ \E r \in RequestIds, rag \in BOOLEAN : RequestCallsModel(r, rag)
  \/ \E r \in RequestIds : RequestEnds(r)

RequestSpec == RequestInit /\ [][RequestNext]_vars

\* -------------------------------------------------------------- tool names
\* Strings are sequences of their pieces, so that concatenation is \o.
\* A server id is any non-empty string (McpServerConfigSchema), a tool name
\* whatever the server reports.
ServerIdStrings == {<<"a">>, <<"a", "_", "b">>}
ToolNameStrings == {<<"c">>, <<"b", "_", "c">>}
ServerTools == [id : ServerIdStrings, names : SUBSET ToolNameStrings]

\* config.mcp.servers of an agent with enableTools, each server with the
\* tools its listTools reports.
ToolNameInputs == {[fn |-> "toolNames", servers |-> <<s1, s2>>] : s1, s2 \in ServerTools}

\* `${serverId}_${mcpTool.name}`
InternalName(serverId, name) == serverId \o <<"_">> \o name

\* getToolsForServer: one tool per reported tool, under its internal name,
\* bound to the server and the tool's name.
GetToolsForServer(server) ==
  {[name |-> InternalName(server.id, n), serverId |-> server.id, toolName |-> n] :
     n \in server.names}

\* Object.assign(this.tools, serverTools): a key of serverTools replaces the
\* same key of this.tools.
ObjectAssign(target, source) ==
  {t \in target : \A u \in source : u.name # t.name} \cup source

ToolNameInit ==
  /\ input \in ToolNameInputs
  /\ output = [fn |-> "tools", next |-> 1, tools |-> {}]
  /\ RegistryLoaded
  /\ ExecutorInit
  /\ AgentIdle
  /\ TurnIdle
  /\ DelegationIdle

\* One turn of initialize's loop over the servers, for a server that
\* connected and listed its tools.
LoadServerTools ==
  /\ input.fn = "toolNames"
  /\ output.next <= Len(input.servers)
  /\ output' = [output EXCEPT
       !.next = @ + 1,
       !.tools = ObjectAssign(@, GetToolsForServer(input.servers[output.next]))]
  /\ UNCHANGED <<input, agents, registryVars, executorVars, agentVars, turnVars,
               delegationVars>>

ToolNameNext == LoadServerTools

ToolNameSpec == ToolNameInit /\ [][ToolNameNext]_vars

\* ================================================================= claims

\* The status changes the A2aTask state machine allows.
LegalTransitions ==
  {<<"pending", "in_progress">>, <<"in_progress", "completed">>,
   <<"in_progress", "failed">>, <<"pending", "cancelled">>,
   <<"in_progress", "cancelled">>}

\* C1: every change of a task's status is pending->in_progress,
\* in_progress->completed, in_progress->failed, pending->cancelled or
\* in_progress->cancelled; in particular a completed, failed or cancelled
\* task never changes status again.
C1_StatusTransitionsLegal ==
  [][\A id \in DOMAIN tasks \cap DOMAIN tasks' :
       tasks'[id].status # tasks[id].status =>
         <<tasks[id].status, tasks'[id].status>> \in LegalTransitions]_vars

\* C2: a task that cancelTask has set to cancelled stays cancelled in every
\* later state, and an execution that finishes afterwards stores no result
\* on it.
C2_CancelledIsFinal ==
  [][\A id \in DOMAIN tasks :
       tasks[id].status = "cancelled" =>
         /\ id \in DOMAIN tasks'
         /\ tasks'[id].status = "cancelled"
         /\ tasks'[id].result = tasks[id].result]_vars

\* C3: cancelTask(id) returns true and sets the status to cancelled exactly
\* when the task exists and is pending or in_progress at the call; otherwise
\* it returns false and leaves every task unchanged.
C3_CancelTaskContract ==
  [][lastCall'.op = "cancelTask" =>
       LET id == lastCall'.id
           cancellable == /\ id \in DOMAIN tasks
                          /\ tasks[id].status \in {"pending", "in_progress"}
       IN  /\ lastCall'.ret = "true" <=> cancellable
           /\ cancellable =>
                /\ tasks'[id].status = "cancelled"
                /\ \A other \in DOMAIN tasks \ {id} : tasks'[other] = tasks[other]
           /\ ~cancellable => tasks' = tasks]_vars

\* cancelTask has just returned true for a task in progress.
C3_Witness ==
  /\ lastCall.op = "cancelTask"
  /\ lastCall.ret = "true"
  /\ lastCall.id \in DOMAIN tasks
  /\ tasks[lastCall.id].status = "cancelled"

\* C4: the descriptor createTask returns has status pending and
\* createdAt = updatedAt (the move to in_progress comes after the return).
C4_CreateReturnsPending ==
  (lastCall.op = "createTask" /\ lastCall.ret = "ok") =>
    /\ lastCall.task.status = "pending"
    /\ lastCall.task.createdAt = lastCall.task.updatedAt

\* C5: createTask with an agentPath the registry does not hold fails with
\* AGENT_NOT_FOUND, records no task and starts no execution.
C5_UnknownAgentRejected ==
  [][(lastCall'.op = "createTask" /\ ~RegistryHas(lastCall'.path)) =>
       /\ lastCall'.ret = "AGENT_NOT_FOUND"
       /\ tasks' = tasks
       /\ bg' = bg
       /\ nextId' = nextId]_vars

\* createTask has just been refused for an unregistered path.
C5_Witness ==
  /\ lastCall.op = "createTask"
  /\ ~RegistryHas(lastCall.path)
  /\ lastCall.ret = "AGENT_NOT_FOUND"

\* C6: every task createTask created reaches a terminal status once
\* agent.execute settles; the settling step makes it completed with the
\* result stored when execute succeeded and failed with the error message
\* stored when execute failed.
C6_EventuallyTerminal ==
  /\ \A id \in TaskIds :
       (id \in DOMAIN bg /\ bg[id] = "awaiting")
         ~> (id \notin DOMAIN tasks \/ tasks[id].status \in Terminal)
  /\ [][\A id \in DOMAIN tasks \cap DOMAIN bg :
          (bg[id] = "awaiting" /\ bg'[id] # "awaiting") =>
            /\ id \in DOMAIN tasks'
            /\ bg'[id] = "resolved" =>
                 /\ tasks'[id].status = "completed"
                 /\ tasks'[id].result = AgentOutput
            /\ bg'[id] = "rejected" =>
                 /\ tasks'[id].status = "failed"
                 /\ tasks'[id].error = ExecuteError]_vars

\* A background execution has succeeded and left its task completed with
\* the agent's output.
C6_Witness ==
  \E id \in DOMAIN tasks :
    /\ bg[id] = "resolved"
    /\ tasks[id].status = "completed"
    /\ tasks[id].result = AgentOutput

\* C7: every event stream of executeTaskStream for a known task starts with
\* status(in_progress), and once the stream has ended its last event is a
\* complete or an error event, whatever chunks the agent yielded.
C7_StreamFirstAndLast ==
  \A s \in StreamIds :
    /\ streams[s].pc # "idle" =>
         /\ Len(streams[s].events) >= 1
         /\ streams[s].events[1] = Event("status", "in_progress")
    /\ streams[s].pc = "done" =>
         /\ Len(streams[s].events) >= 2
         /\ streams[s].events[Len(streams[s].events)].type \in {"complete", "error"}

\* A stream has ended after the agent yielded at least one chunk that
\* became an event.
C7_Witness ==
  \E s \in StreamIds :
    /\ streams[s].pc = "done"
    /\ Len(streams[s].events) >= 3

\* The tasks C8 says cleanupOldTasks(maxAgeMs) deletes at time now.
Expired(ts, now, maxAgeMs) ==
  {id \in DOMAIN ts :
     /\ ts[id].status \in {"completed", "failed"}
     /\ now - GetTime(ts[id].updatedAt) > maxAgeMs}

\* C8: cleanupOldTasks(maxAgeMs) deletes exactly the completed and failed
\* tasks with now - updatedAt > maxAgeMs, returns how many it deleted, and
\* keeps every pending, in_progress and cancelled task (and every kept task
\* unchanged).
C8_CleanupExact ==
  [][lastCall'.op = "cleanupOldTasks" =>
       LET old == Expired(tasks, clock, lastCall'.maxAge)
       IN  /\ DOMAIN tasks' = DOMAIN tasks \ old
           /\ \A id \in DOMAIN tasks' : tasks'[id] = tasks[id]
           /\ lastCall'.count = Cardinality(old)
           /\ \A id \in DOMAIN tasks :
                tasks[id].status \in {"pending", "in_progress", "cancelled"}
                  => id \in DOMAIN tasks']_vars

\* cleanupOldTasks has just deleted a task and returned its count.
C8_Witness ==
  /\ lastCall.op = "cleanupOldTasks"
  /\ lastCall.count >= 1
  /\ lastCall.count = nextId - Cardinality(DOMAIN tasks)

\* C9 as claimed: cleanupOldTasks(0) removes every completed and every
\* failed task, also one updated at the current time, and keeps the rest.
C9_CleanupZeroRemovesAll ==
  [][(lastCall'.op = "cleanupOldTasks" /\ lastCall'.maxAge = 0) =>
       \A id \in DOMAIN tasks :
         id \in DOMAIN tasks' <=> tasks[id].status \notin {"completed", "failed"}]_vars

\* C9, amended: cleanupOldTasks(0) removes every completed and every failed
\* task whose updatedAt is earlier than the current time, keeps a completed
\* or failed task whose updatedAt equals the current time, and keeps every
\* pending, in_progress and cancelled task.
C9_CleanupZeroRemovesOlder ==
  [][(lastCall'.op = "cleanupOldTasks" /\ lastCall'.maxAge = 0) =>
       \A id \in DOMAIN tasks :
         id \in DOMAIN tasks' <=>
           \/ tasks[id].status \notin {"completed", "failed"}
           \/ GetTime(tasks[id].updatedAt) = clock]_vars

\* cleanupOldTasks(0) has just kept a completed or failed task that was
\* updated in the current millisecond.
C9_Witness ==
  /\ lastCall.op = "cleanupOldTasks"
  /\ lastCall.maxAge = 0
  /\ \E id \in DOMAIN tasks :
       /\ tasks[id].status \in {"completed", "failed"}
       /\ GetTime(tasks[id].updatedAt) = clock

\* C10: createdAt never changes after creation, updatedAt never decreases,
\* and every status change sets updatedAt to the time of the change.
C10_Timestamps ==
  [][/\ \A id \in DOMAIN tasks \cap DOMAIN tasks' :
          /\ tasks'[id].createdAt = tasks[id].createdAt
          /\ GetTime(tasks'[id].updatedAt) >= GetTime(tasks[id].updatedAt)
          /\ tasks'[id].status # tasks[id].status =>
               GetTime(tasks'[id].updatedAt) = clock'
     /\ \A id \in DOMAIN tasks' \ DOMAIN tasks :
          /\ GetTime(tasks'[id].createdAt) = clock
          /\ tasks'[id].status # "pending" => GetTime(tasks'[id].updatedAt) = clock']_vars

\* A task whose status changed after the millisecond it was created in.
C10_Witness ==
  \E id \in DOMAIN tasks :
    /\ tasks[id].status \in Terminal
    /\ GetTime(tasks[id].updatedAt) > GetTime(tasks[id].createdAt)

\* --------------------------------------------------------------- registry
\* A step in which the loadConfig of the file at the head of the queue ran.
LoadConfigStep == load.pc = "readFile" /\ load' # load
ReloadConfigStep == load.pc = "reloadReadFile" /\ load' # load

\* C11: the registry never holds an agent under a path other than its own
\* config's, and loading a config file whose path is already registered
\* fails with AGENT_CONFIG_ERROR (duplicate agent path), leaving the agent and
\* the config registered for that path as they were.
C11_DuplicatePathRejected ==
  /\ [](\A path \in DOMAIN agents : dir.files[agents[path]].path = path)
  /\ [][(LoadConfigStep /\ dir.files[Head(load.queue)].valid
                        /\ dir.files[Head(load.queue)].path \in DOMAIN agents)
        => /\ regCall' = RegCall("loadAll", "AGENT_CONFIG_ERROR", "duplicate",
                                 Head(load.queue))
           /\ agents' = agents
           /\ configs' = configs]_vars

C11_Witness ==
  /\ regCall.op = "loadAll"
  /\ regCall.reason = "duplicate"
  /\ \E path \in DOMAIN agents : agents[path] # regCall.file
                                  /\ dir.files[regCall.file].path = path

\* C12: in every state the registry holds either none or all of the agents
\* of the config directory.
C12_NoPartialRegistry ==
  DOMAIN agents = {} \/ DOMAIN agents = DirectoryPaths(dir)

\* C13: for every path, has is true iff get returns an agent iff getConfig
\* returns a config whose path is that path; for a path that is not
\* registered both get and getConfig fail with AGENT_NOT_FOUND.
C13_ReadersAgree ==
  \A path \in ConfigPaths \cup {"unknown"} :
    /\ Has(path) <=> Get(path).ok
    /\ Has(path) <=> (GetConfig(path).ok /\ GetConfig(path).config.path = path)
    /\ ~Has(path) => Get(path) = NotFound /\ GetConfig(path) = NotFound

C13_Witness ==
  /\ \E path \in ConfigPaths : Has(path)
  /\ \E path \in ConfigPaths : ~Has(path)
  /\ load.pc = "readFile"

\* C14: shutdownAll calls shutdown on every agent registered when it is
\* called, returns without error even when some shutdown failed, and empties
\* the registry only when every one of these shutdown attempts has finished.
C14_ShutdownAllOrderly ==
  [][/\ (sd.pc = "idle" /\ sd'.pc = "awaiting")
        => sd'.snapshot = AgentValues /\ sd'.pending = AgentValues
     /\ (sd.pc = "awaiting" /\ sd'.pc = "idle")
        => /\ sd.pending = {}
           /\ regCall'.op = "shutdownAll"
           /\ regCall'.ret = "ok"
           /\ \A path \in ConfigPaths : ~Has(path)'
           /\ List' = {}
     /\ (sd.pc = "awaiting" /\ sd'.pc = "awaiting")
        => \/ agents' = agents /\ configs' = configs
           \/ LoadConfigStep
           \/ ReloadConfigStep]_vars

C14_Witness ==
  /\ regCall.op = "shutdownAll"
  /\ regCall.ret = "ok"
  /\ regCall.reason = "logged"
  /\ agents = <<>>
  /\ configs = <<>>

\* C15: loadAll on a registry whose config directory does not exist returns
\* without error, and the registry is empty.
C15_MissingDirectoryIsEmpty ==
  /\ [](~dir.exists => (\A path \in ConfigPaths : ~Has(path)) /\ List = {})
  /\ [][(~dir.exists /\ load.pc = "readdir" /\ load'.pc = "idle")
        => regCall' = RegCall("loadAll", "ok", "", 0)]_vars

C15_Witness ==
  /\ ~dir.exists
  /\ regCall = RegCall("loadAll", "ok", "", 0)
  /\ List = {}

\* ------------------------------------------------------------------ agent
\* C16: once a shutdown of the agent has completed, the agent is not
\* initialized again: no later step marks it initialized, connects a tool
\* source or builds a retriever.
C16_NoReinitialization ==
  [][everShutdown => /\ initialized' = FALSE
                     /\ nextClient' = nextClient
                     /\ retriever' = "null"]_vars

\* A step in which caller p calls initialize.
InitializeCalled(p) ==
  /\ procs[p].pc = "idle"
  /\ \/ procs'[p].kind = "initialize"
     \/ agentCall'.op = "initialize" /\ agentCall'.proc = p /\ agentCall' # agentCall

\* C17: a call of initialize on an agent that is initialized returns at
\* once: it opens no connection, creates no retriever and leaves the tools
\* as they are.
C17_InitializeIdempotent ==
  [][\A p \in ProcIds : (initialized /\ InitializeCalled(p))
        => /\ agentCall' = AgentCall("initialize", p, "already")
           /\ procs' = procs
           /\ connections' = connections
           /\ openClients' = openClients
           /\ nextClient' = nextClient
           /\ mcpClients' = mcpClients
           /\ retriever' = retriever
           /\ tools' = tools
           /\ initialized']_vars

C17_Witness ==
  /\ agentCall.op = "initialize"
  /\ agentCall.ret = "already"
  /\ initialized
  /\ openClients # {}
  /\ tools # {}

\* A step of the initialize that caller p runs: a connect or a listTools
\* settles.
InitStep(p) == procs[p].pc \in {"connect", "listTools"} /\ procs'[p] # procs[p]

\* C18: a connect or a listTools that fails does not end initialize: the
\* loop goes on, no tool is lost, and when the loop ends the agent is
\* initialized, has the tools of every source that connected and listed, and
\* initialize returns without error (a turn goes on to its model call).
C18_SourceFailureTolerated ==
  [][\A p \in ProcIds : InitStep(p)
        => /\ tools \subseteq tools'
           /\ procs'[p].kind = procs[p].kind \/ procs'[p] = IdleProc
           /\ procs'[p].pc = "listTools" \/ procs'[p].queue = Tail(procs[p].queue)
           /\ procs'[p].pc \in {"connect", "listTools"} \/ Tail(procs[p].queue) = <<>>
           /\ procs'[p].pc \notin {"connect", "listTools"}
                => /\ initialized'
                   /\ \A src \in procs[p].got : ToolsOf(src) \subseteq tools'
                   /\ IF procs[p].kind = "execute"
                      THEN procs'[p].pc = "generate"
                      ELSE procs'[p].pc = "idle"
                           /\ agentCall' = AgentCall("initialize", p, "ok")]_vars

C18_Witness ==
  /\ agentCall.op = "initialize"
  /\ agentCall.ret = "ok"
  /\ initialized
  /\ "s1" \notin mcpClients
  /\ tools = ToolsOf("s2")
  /\ nextClient = 1

\* A step in which the shutdown that caller p runs returns.
ShutdownCompletes(p) ==
  /\ procs[p].kind = "shutdown"
  /\ procs'[p].pc = "idle"

\* C19: when a shutdown of the agent returns, no connection is left in the
\* table, no client is open, the retriever is released and the agent is not
\* initialized.
C19_ShutdownReleasesAll ==
  [][\A p \in ProcIds : ShutdownCompletes(p)
        => /\ connections' = <<>>
           /\ openClients' = {}
           /\ retriever' = "null"
           /\ initialized' = FALSE]_vars

\* ------------------------------------------------------------------- turn
\* The finish chunks among the chunks of the turn.
FinishChunks == {i \in 1..Len(turn.chunks) : turn.chunks[i].type = "finish"}

\* C20: the chunks of a turn hold at most one finish chunk, and no finish
\* chunk has the finish reason tool-calls.
C20_FinishAtMostOnce ==
  /\ Cardinality(FinishChunks) <= 1
  /\ \A i \in FinishChunks : turn.chunks[i].finishReason # "tool-calls"

C20_Witness ==
  /\ turn.pc = "done"
  /\ turn.step > 1
  /\ Cardinality(FinishChunks) = 1
  /\ \E i \in 1..Len(turn.chunks) : turn.chunks[i].type = "tool-result"

\* C21: an error chunk is the last chunk of the turn: no chunk follows an
\* error chunk, whether it came from an error part or from the catch.
C21_ErrorChunkIsLast ==
  \A i \in 1..Len(turn.chunks) :
    turn.chunks[i].type = "error" => i = Len(turn.chunks)
\* C22: a turn makes at most five model invocations, in execute and in
\* stream alike: the step counter never passes the cap, and no step is begun
\* once the cap is reached.
C22_AtMostFiveInvocations ==
  [][/\ turn.step <= StepCap
     /\ turn'.step <= StepCap
     /\ (turn.step = StepCap => turn'.step = StepCap)]_vars

\* execute has run five steps, each of them calling a tool, and has returned.
C22_Witness ==
  turn.pc = "returned" /\ turn.step = StepCap /\ turn.ret = "tool-calls"

\* The reasons by which a turn may report that it stopped at the step cap:
\* "steps", or what the provider gives for a last step that still called a
\* tool.
CapReasons == {"steps", "tool-calls"}

\* The turn has no error: no error part was read and no error chunk yielded.
NoErrorChunk(chunks) == \A i \in 1..Len(chunks) : chunks[i].type # "error"

\* C23: a turn that stops because the fifth step still called a tool reports
\* it: execute returns a finish reason saying so, and stream ends with a
\* finish chunk carrying that reason as its last chunk.
C23_CapIsReported ==
  [][/\ (/\ turn.pc = "invoked" /\ turn.step = StepCap
         /\ turn'.pc = "returned" /\ turn'.ret # ExecuteError)
        => turn'.ret \in CapReasons
     /\ (/\ turn.pc = "called" /\ turn.step = StepCap
         /\ turn'.pc = "done" /\ turn'.errors = 0 /\ NoErrorChunk(turn'.chunks))
        => /\ Len(turn'.chunks) > 0
           /\ turn'.chunks[Len(turn'.chunks)].type = "finish"
           /\ turn'.chunks[Len(turn'.chunks)].finishReason \in CapReasons]_vars

\* The results of a search that pass minScore.
Passing(results, minScore) == SelectSeq(results, LAMBDA r : r.score >= minScore)

\* C24: with retrieval enabled, when the search failed or returned no result
\* that passes minScore, the prompt given to the model is config.systemPrompt
\* exactly; buildSystemPromptWithRAG returns a prompt in every case.
C24_FallbackToBasePrompt ==
  (/\ output.fn = "prompt"
   /\ output.searched
   /\ output.threw \/ Len(Passing(output.results, input.minScore)) = 0)
  => output.prompt = BasePrompt

\* C27: every result that retriever.search hands to the prompt assembly has
\* a score of at least minScore, whichever backend and whatever its matches.
C27_ResultsPassMinScore ==
  output.fn \in {"search", "prompt"}
  => \A i \in 1..Len(output.results) : output.results[i].score >= input.minScore

\* C25: a delegation tool never raises; it returns the target's text when
\* the target's execute succeeded, and otherwise the string "Error: Failed to
\* get response from <path> agent. <reason>".
C25_DelegationNeverRaises ==
  nest.tool # NoTool =>
    /\ ~nest.tool.raised
    /\ nest.tool.outcome = "text" => nest.tool.value = AgentOutput.text
    /\ nest.tool.outcome # "text" =>
         /\ SubSeq(nest.tool.value, 1, 3) =
              <<"Error: Failed to get response from ", nest.tool.path, " agent. ">>
         /\ Len(nest.tool.value) > 3

\* A delegation tool whose target's execute threw has returned to a caller
\* that is past its first step.
C25_Witness ==
  /\ nest.tool.outcome = "failed"
  /\ \E i \in 1..Len(nest.stack) : nest.stack[i].step > 1

\* C26: the step cap bounds the model invocations that one turn causes,
\* delegation included.
C26_StepCapBoundsTotal == nest.total <= StepCap

\* C28: the keys that the translated decoder of an object schema requires
\* are the keys of the schema's required list, also when required names a
\* key that properties lacks and when properties is missing.
C28_RequiredPreserved ==
  output.fn = "zod" => RequiredKeys(output.decoder) = input.schema.required

\* C29: a config that loadAll accepted with provider openai-compatible has a
\* providerConfig; without one the file is rejected when it is loaded, and
\* no first turn fails for it.
C29_ProviderConfigRequired ==
  /\ (output.fn = "loadConfig" /\ output.ret = "ok"
      /\ output.config.provider = "openai-compatible")
     => output.config.providerConfig.present
  /\ output.fn = "getModel" => output.ret = "model"

\* C30: the streamed execution of a task and the background execution that
\* createTask started for it do not write over each other: executeTaskStream
\* sets in_progress only on a task that is still pending, a task with a
\* terminal status is not written again, and in particular is not moved
\* back to in_progress.
C30_StreamAndBackgroundApart ==
  [][\A id \in DOMAIN tasks \cap DOMAIN tasks' :
       /\ (/\ lastCall'.op = "executeTaskStream"
           /\ lastCall'.ret = "ok"
           /\ lastCall'.id = id)
          => tasks[id].status = "pending"
       /\ (tasks[id].status \in Terminal /\ tasks[id].status # "cancelled")
          => /\ tasks'[id].status # "in_progress"
             /\ tasks'[id].status = tasks[id].status
             /\ tasks'[id].updatedAt = tasks[id].updatedAt]_vars

\* C31: reload of an unregistered path fails with AGENT_NOT_FOUND and changes
\* nothing; reload of a registered path, once the agent's shutdown is over,
\* completes without error and leaves the path registered.
C31_ReloadReplaces ==
  [][(regCall'.op = "reload" /\ regCall'.ret # "shutdown failed") =>
       IF load.pc = "idle"
       THEN /\ regCall'.ret = "AGENT_NOT_FOUND"
            /\ agents' = agents /\ configs' = configs
       ELSE /\ regCall'.ret = "ok"
            /\ dir.files[regCall'.file].path \in DOMAIN agents']_vars

\* The turns that have called the model.
AtModel == {r \in RequestIds : output.fn = "requests" /\ output.turns[r].pc = "model"}
HasInstruction(system) == \E i \in 1..Len(system) : system[i] = PageInstruction

\* C32: when the page context of a request makes getPageContent part of the
\* turn's tools, the system prompt given to the model ends with the fixed
\* instruction, in execute as in stream.
C32_InstructionInExecuteAndStream ==
  \A r \in AtModel :
    GetPageContent \in output.turns[r].allTools => HasInstruction(output.turns[r].system)

\* C33: the per-request tools never change the agent's static tools, and a
\* turn without a page context is never given getPageContent, whatever
\* other turns run at the same time.
C33_StaticToolsUnchanged ==
  output.fn = "requests" =>
    /\ output.tools = input.tools
    /\ \A r \in RequestIds :
         ~Truthy(output.turns[r].pageContext) =>
           /\ GetPageContent \notin output.turns[r].allTools
           /\ GetPageContent \notin output.turns[r].tools

\* A turn without a page context has called the model with the static
\* tools while a turn with a page context is at the model with
\* getPageContent.
C33_Witness ==
  \E r1, r2 \in AtModel :
    /\ ~Truthy(output.turns[r1].pageContext)
    /\ output.turns[r1].tools = StaticTools
    /\ GetPageContent \in output.turns[r2].tools

\* C39: a call whose system prompt has the getPageContent instruction also
\* has the getPageContent tool among the tools it passes to the model.
C39_InstructionImpliesTool ==
  \A r \in AtModel :
    HasInstruction(output.turns[r].system) => GetPageContent \in output.turns[r].tools

\* C34: distinct (sourceId, toolName) pairs get distinct internal names, so
\* no tool that initialize loaded from one source is replaced by a tool of
\* another: every tool in the collection stays in it.
C34_NoNameCollision ==
  [][input.fn = "toolNames" => \A t \in output.tools : t \in output'.tools]_vars

\* No shutdown of the agent has been called yet: every call so far is a
\* first use.
NoShutdownYet == ~everShutdown /\ \A p \in ProcIds : procs[p].kind # "shutdown"

\* C35: however concurrent first uses of an uninitialized agent interleave,
\* each tool source is connected at most once, and the connection table
\* never replaces the entry of a client that is still open.
C35_ConnectAtMostOnce ==
  [][\A src \in DOMAIN connections \cap DOMAIN connections' :
       connections'[src] # connections[src] =>
         /\ ~NoShutdownYet
         /\ connections[src] \notin openClients]_vars

\* C36: once a shutdown of the agent is over and no call is running on it,
\* the agent holds no open connection, also when an initialize was
\* suspended on a connect while the shutdown ran.
C36_NoConnectionAfterShutdown ==
  (everShutdown /\ ~initialized /\ \A p \in ProcIds : procs[p].pc = "idle")
  => openClients = {}

\* C40: when an initialization that follows a shutdown is over, every tool
\* of the static collection belongs to a source that is connected: no tool
\* of a closed connection or of a source that failed to reconnect remains.
C40_NoStaleTools ==
  [][(everShutdown /\ ~initialized /\ initialized')
       => tools' \subseteq UNION {ToolsOf(src) : src \in DOMAIN connections'}]_vars

\* The positions of the terminal events, complete and error, in an event
\* stream.
TerminalEvents(events) ==
  {i \in 1..Len(events) : events[i].type \in {"complete", "error"}}

\* C37: a task event stream has exactly one terminal event: no complete
\* event follows an error event, a stream that is over has one complete or
\* error event and no more, and the step that ends a stream with an error
\* event leaves the task failed.
C37_OneTerminalEvent ==
  /\ [](\A s \in StreamIds :
         /\ \A i, j \in 1..Len(streams[s].events) :
              (i < j /\ streams[s].events[i].type = "error")
                => streams[s].events[j].type # "complete"
         /\ streams[s].pc = "done"
              => Cardinality(TerminalEvents(streams[s].events)) = 1)
  /\ [][\A s \in StreamIds :
         (/\ streams[s].pc = "running" /\ streams'[s].pc = "done"
          /\ streams'[s].events[Len(streams'[s].events)].type = "error"
          /\ streams[s].task \in DOMAIN tasks')
         => tasks'[streams[s].task].status = "failed"]_vars

\* C38: in every state a completed task has a result and no error, a failed
\* task has an error, and a pending or in_progress task has neither.
C38_ResultMatchesStatus ==
  \A id \in DOMAIN tasks :
    /\ tasks[id].status = "completed"
         => tasks[id].result # NoResult /\ tasks[id].error = NoError
    /\ tasks[id].status = "failed" => tasks[id].error # NoError
    /\ tasks[id].status \in {"pending", "in_progress"}
         => tasks[id].result = NoResult /\ tasks[id].error = NoError

====
